---- MODULE Spec2Model ----
(***************************************************************************)
(* State-machine model of the signalling overlay of js-libp2p-webrtc-direct *)
(* (transport src/src/index.ts, servers src/unnamed/part_004, listener      *)
(* src/unnamed/part_007, health monitor src/src/helpers.ts).                *)
(*                                                                         *)
(* The module holds four specifications:                                   *)
(*   SpecRelay - one relay's router (WebRTCDirectServer) against an         *)
(*               arbitrary environment of signalling channels;              *)
(*   SpecHttp  - one dial over the HTTP path against an HTTP listener;      *)
(*   SpecMesh  - the routers of a mesh of relays (one relay, a line, a      *)
(*               double link, a cycle) forwarding what the peers send;      *)
(*   SpecStar  - one dial of a star address over the signalling channel,    *)
(*               P1 to P2 through one relay or a line of two, with weak     *)
(*               fairness of the engine, channel and digest steps.          *)
(* The peer engine (@cerc-io/webrtc-peer) and RTCDataChannel are external:  *)
(* their events are environment actions.                                    *)
(***************************************************************************)
EXTENDS Integers, Sequences, FiniteSets, TLC

\* ------------------------------------------------------------------ bounds
\* signalling channels the relay of SpecRelay gets to see
MaxSC == 2
\* message events delivered to the relay of SpecRelay
MaxMsgs == 2
\* signalling channels the dial engine creates on one outbound connection (SpecHttp)
MaxDialSC == 2
\* local signals one receiver emits for one offer (the answer, then candidates)
MaxSignals == 2
\* entries the seen-caches of SpecMesh let expire
MaxExpiry == 1
\* MaxMsgs also bounds the messages the peers of SpecMesh send

\* --------------------------------------------------------------- constants
\* peer identities (opaque strings); "PX" never joins anywhere
PIDs == {"P1", "P2"}
AllPIDs == PIDs \cup {"PX"}
\* "no channel" (undefined / Map.get miss)
NoSC == 0
SCs == 1..MaxSC

VARIABLES
  \* ---- SpecRelay: WebRTCDirectServer of a relay (part_004:151-505)
  rsState,                    \* RTCDataChannel.readyState per channel ("absent" before creation)
  rsKind,                     \* "peer" | "relay": signalling_channel of the inbound request; "dialed": registered by the dial engine
  rsCloseFired,               \* the channel's close event has been dispatched
  peerSignallingChannelMap,   \* part_004:161
  relaySignallingChannels,    \* part_004:165
  seenCache,                  \* part_004:168
  messageHandler,             \* channels with a message listener of the server installed
  closeListeners,             \* per channel: untrack closures registered for 'close' ({once: true})
  errorListeners,             \* per channel: untrack closures registered for 'error'
  closingIntervals,           \* running setChannelClosingInterval timers: <<channel, closure>>
  hashing,                    \* messages suspended at `await sha256.encode(msg)`: <<from, bytes>>
  lastForward,                \* history: what the last _handlePeerSignallingMessage continuation did
  lastJoin,                   \* history: channel of the most recent JoinRequest per PID, while that channel has neither closed nor errored
  msgCount                    \* message events delivered so far

relayVars == <<rsState, rsKind, rsCloseFired, peerSignallingChannelMap,
               relaySignallingChannels, seenCache, messageHandler, closeListeners,
               errorListeners, closingIntervals, hashing, lastForward, lastJoin, msgCount>>

VARIABLES
  \* ---- SpecHttp: one dial of a WebRTCDirect transport (index.ts:46-601)
  \* against one request of a WebRTCDirectServer (part_004:241-358)
  cfg,                 \* enableSignalling, nodeType of the dialling transport; signallingEnabled of the listener
  dial,                \* the dial attempt: promise state, initiator, listeners, deferred
  http,                \* the fetch of the offer: request, and its state
  tSignallingChannel,  \* index.ts:54  this.signallingChannel of the dialling transport
  dsc,                 \* the signalling channels created on the initiator, dialler's end
  lsn                  \* the listener's request: receiver, response, deferred, lists

httpVars == <<cfg, dial, http, tSignallingChannel, dsc, lsn>>

VARIABLES
  \* ---- SpecMesh: relays joined by signalling channels, a dialling peer P1
  \* and a listening peer P2 (part_004:31-149, 360-482; index.ts:399-544)
  topology,    \* which channels exist: the name of an entry of Topologies
  inbox,       \* per channel and end: the messages sent towards that end, not yet delivered
  hashingAt,   \* per relay: messages suspended at `await sha256.encode(msg)`: <<from, bytes>>
  seenCaches,  \* per relay: part_004:168
  expired,     \* history: per relay, the digests its seen-cache has let expire
  sent,        \* history: <<relay, channel, bytes>> -> number of `send` calls
  dropped,     \* history: <<relay, bytes>> ignored as already seen
  receivers,   \* part_004:34 the receivers P2's WebRTCDirectSigServer created, one per accepted offer
  injected     \* SpecMesh: messages the peers have sent so far

meshVars == <<topology, inbox, hashingAt, seenCaches, expired, sent, dropped, receivers, injected>>

VARIABLES
  \* ---- the dialling peer's own listener and its dial of a star address
  pl,       \* index.ts:55 this.peerListener: the WebRTCDirectListener and its WebRTCDirectSigServer
  sdial,    \* the dial attempt of _connectUsingSignallingChannel (index.ts:399-544)
  srv       \* part_004:484-504, part_007:93-99: how far close() of the HTTP listener has got

peerVars == <<pl, sdial, srv>>

VARIABLES
  \* ---- an HTTP listener serving arbitrary requests (part_004:241-358)
  hreq,     \* history: per processed request, what became of its response and receiver
  \* ---- a call of filter (index.ts:565-600)
  flt,      \* the addresses passed and the addresses returned
  \* ---- concurrent star dials of one peer over its PeerSC (index.ts:478-534)
  cd,       \* per target the awaiting onSignal; the channel's sends and message events
  \* ---- a listener on which listen() is called repeatedly (part_007:41-73)
  ln        \* the listener's fields, the servers it created, the outcome of each call

extVars == <<hreq, flt, cd, ln>>

vars == <<relayVars, httpVars, meshVars, peerVars, extVars>>

\* -------------------------------------------------------- helper operators
Range(f) == {f[x] : x \in DOMAIN f}

RECURSIVE SeqCount(_, _)
SeqCount(seq, x) ==
  IF seq = <<>> THEN 0
  ELSE (IF Head(seq) = x THEN 1 ELSE 0) + SeqCount(Tail(seq), x)

RemoveAt(seq, i) == SubSeq(seq, 1, i - 1) \o SubSeq(seq, i + 1, Len(seq))

\* ------------------------------------------------------------ message codec
\* Wire form of a signalling message: JSON.stringify of the object, i.e. the
\* values in key order (signal-message.ts:2-23).
EncodeJoinRequest(peerId) == <<"JoinRequest", peerId>>
EncodeConnect(type, src, dst, signal) == <<type, src, dst, signal>>

\* JSON.parse of the wire bytes (part_004:214, 410)
ParseMessage(bytes) ==
  IF bytes[1] = "JoinRequest"
  THEN [type |-> "JoinRequest", peerId |-> bytes[2], src |-> "", dst |-> "", signal |-> ""]
  ELSE [type |-> bytes[1], peerId |-> "", src |-> bytes[2], dst |-> bytes[3], signal |-> bytes[4]]

\* sha256 of the wire bytes, base64 (part_004:444-445): injective on the bytes
Digest(bytes) == <<"sha256">> \o bytes

\* wire messages the environment of SpecRelay delivers; the ConnectRequest is
\* routed directly or flooded according to whether P2 has joined
RelayInputs ==
  {EncodeJoinRequest(p) : p \in PIDs}
  \cup {EncodeConnect("ConnectRequest", "P1", "P2", "offer")}

\* ----------------------------------------------------------- relay router
\* untrack closures: [k |-> "peer", pid |-> p] deletes p from the map,
\* [k |-> "relay"] / [k |-> "dialed"] filter the channel out of the relay list
PeerClosure(p) == [k |-> "peer", pid |-> p]
RelayClosure == [k |-> "relay", pid |-> ""]
DialedClosure == [k |-> "dialed", pid |-> ""]

\* part_004:380  this.peerSignallingChannelMap.set(peerId, signallingChannel)
trackPeerSignallingChannel(map, peerId, sc) == [map EXCEPT ![peerId] = sc]

\* mutant: the close handler forgets to delete the entry
untrackPeerChannel_Kept(map, peerId) == map

\* part_004:384-386  this.peerSignallingChannelMap.delete(peerId)
untrackPeerChannel(map, peerId) == [map EXCEPT ![peerId] = NoSC]

\* part_004:365, 209  this.relaySignallingChannels.push(signallingChannel)
trackRelaySignallingChannel(list, sc) == Append(list, sc)

\* part_004:367-369, 230  relaySignallingChannels.filter(s => s !== signallingChannel)
untrackRelayChannel(list, sc) == SelectSeq(list, LAMBDA c : c # sc)

\* mutant: the test on the type of the request is inverted
tracksJoinRequest_Inverted(type) == type = "relay"

\* mutant: a JoinRequest is tracked whatever the type of the request
tracksJoinRequest_Always(type) == TRUE

\* part_004:414-421: the message handler of an inbound channel throws on a
\* JoinRequest if the request asked for a relay channel, and tracks it else
tracksJoinRequest(type) == type # "relay"

\* the tables after running a set of untrack closures of channel sc
MapAfterUntrack(map, cls) ==
  [p \in PIDs |-> IF PeerClosure(p) \in cls THEN untrackPeerChannel(map, p)[p] ELSE map[p]]
ListAfterUntrack(list, sc, cls) ==
  IF RelayClosure \in cls \/ DialedClosure \in cls THEN untrackRelayChannel(list, sc) ELSE list

\* part_004:443-453  _isMsgSeen: lookup, and the cache afterwards
\* mutant: nothing is ever found in the cache
isMsgSeen_Never(cache, bytes) == FALSE

\* part_004:447 the lookup of _isMsgSeen
isMsgSeen(cache, bytes) == Digest(bytes) \in cache

\* mutant: the digest is not stored
seenCachePut_Nothing(cache, bytes) == cache

\* part_004:451 the put of _isMsgSeen
seenCachePut(cache, bytes) == cache \cup {Digest(bytes)}

\* mutant: the flood ends at the first channel whose send throws
forwardSignallingMessage_StopsAtFailure(map, list, from, dst) ==
  IF dst \in DOMAIN map /\ map[dst] # NoSC
  THEN <<map[dst]>>
  ELSE LET targets == SelectSeq(list, LAMBDA c : c # from)
           broken == {i \in 1..Len(targets) : rsState[targets[i]] # "open"}
       IN IF broken = {} THEN targets
          ELSE SubSeq(targets, 1, CHOOSE i \in broken : \A j \in broken : i <= j)

\* mutant: the peer map is not consulted
forwardSignallingMessage_AlwaysFlood(map, list, from, dst) ==
  SelectSeq(list, LAMBDA c : c # from)

\* mutant: the flood does not skip the source channel
forwardSignallingMessage_NoSkip(map, list, from, dst) ==
  IF dst \in DOMAIN map /\ map[dst] # NoSC
  THEN <<map[dst]>>
  ELSE list

\* part_004:455-482  _forwardSignallingMessage: the channels `send` is invoked
\* on, in order (a throwing send is caught and the traversal goes on)
forwardSignallingMessage(map, list, from, dst) ==
  IF dst \in DOMAIN map /\ map[dst] # NoSC
  THEN <<map[dst]>>
  ELSE SelectSeq(list, LAMBDA c : c # from)

NoForward == [kind |-> "none", from |-> NoSC, bytes |-> <<>>, dst |-> "", sends |-> <<>>]

\* ------------------------------------------------- idle values of SpecHttp
DSCs == 1..MaxDialSC
\* init.relayPeerId of the dialling transport (index.ts:68): the primary
\* relay's id, or not given
RelayPeerIds == {"R1", "undefined"}

IdleDial ==
  [state |-> "idle", error |-> "", path |-> "", ma |-> [star |-> FALSE, peerId |-> "null"],
   signallingChannelType |-> "none", channel |-> "absent",
   onError |-> FALSE, onReady |-> FALSE, onAbort |-> FALSE, aborted |-> FALSE,
   connected |-> FALSE, deferred |-> FALSE, readyEmitted |-> FALSE,
   readyAwaiting |-> FALSE, answerFed |-> FALSE, scOpened |-> FALSE,
   requestSent |-> FALSE, onMessage |-> FALSE]
IdleRequest == [state |-> "none", signal |-> <<>>, signalling_channel |-> "none"]
IdleDsc == [state |-> "absent", interval |-> FALSE, closeListener |-> FALSE, joinSent |-> <<>>]
\* index.ts:357-360 this.peerId of the dialling transport
OwnPeerId == "P1"
\* a channel that no longer exists, held by a closure that captured it
GoneSC == 0 - 1
\* index.ts:55: peerListener is unset until createListener (index.ts:551-560);
\* server "unset": created, listen not called (part_007:22); "sig": listening
\* through a WebRTCDirectSigServer (part_007:55-57)
NoListener ==
  [server |-> "none", signallingChannel |-> NoSC, multiaddr |-> FALSE, handlers |-> {},
   lastEvent |-> "none", request |-> "none", arrivedOn |-> NoSC, captured |-> NoSC,
   answeredOn |-> NoSC, reqSrc |-> "", reqDst |-> "", response |-> <<>>, signals |-> 0,
   failed |-> FALSE, channels |-> 0, untrack |-> FALSE, connectionEmitted |-> FALSE]
\* the HTTP listener before close() is called
ListeningServer == [phase |-> "listening", closeEmitted |-> FALSE]
\* no call of filter
NoFilter == [input |-> <<>>, output |-> <<>>, called |-> FALSE]
\* the peers dialled concurrently over the shared channel
Targets == {"P2", "P3"}
\* a dial whose engine has not emitted its offer
NoAwait ==
  [started |-> FALSE, awaiting |-> FALSE, onMessage |-> FALSE, requestSent |-> FALSE,
   rejected |-> FALSE, since |-> 0, fed |-> <<>>]
\* the shared channel, open, nothing sent or received on it
IdleCd ==
  [dials |-> [t \in Targets |-> NoAwait], readyState |-> "open", sent |-> <<>>,
   events |-> <<>>]
\* no request has been processed, filter has not been called, no star dial
\* has emitted an offer
\* a listener on which listen() has not been called
NoListen ==
  [variant |-> "sig", multiaddr |-> "unset", servers |-> <<>>, registered |-> FALSE,
   calls |-> <<>>]
IdleExt == hreq = <<>> /\ flt = NoFilter /\ cd = IdleCd /\ ln = NoListen
\* the variables of the peer's listener and star dial while another
\* specification runs
IdlePeer ==
  /\ pl = NoListener
  /\ sdial = IdleDial
  /\ srv = ListeningServer
  /\ IdleExt
IdleLsn ==
  [receiver |-> "absent", resEnded |-> FALSE, resBody |-> <<>>, bodies |-> 0,
   scType |-> "none", scHandler |-> FALSE, deferred |-> FALSE, readyEmitted |-> FALSE,
   readyAwaiting |-> FALSE, signals |-> 0, connections |-> 0, channels |-> 0,
   untrack |-> FALSE, connectionEmitted |-> FALSE, scOpened |-> FALSE]

\* the variables of SpecHttp while another specification runs
IdleHttp ==
  /\ cfg = [enableSignalling |-> FALSE, nodeType |-> "Peer", relayPeerId |-> "R1",
            listenerSignallingEnabled |-> FALSE]
  /\ dial = IdleDial
  /\ http = IdleRequest
  /\ tSignallingChannel = NoSC
  /\ dsc = [k \in DSCs |-> IdleDsc]
  /\ lsn = IdleLsn
  /\ IdlePeer

\* a Peer node with signalling enabled after its dial of its primary relay R1
\* has resolved: the connection is live, its first signalling channel is open
EstablishedHttp ==
  /\ cfg = [enableSignalling |-> TRUE, nodeType |-> "Peer", relayPeerId |-> "R1",
            listenerSignallingEnabled |-> TRUE]
  /\ dial = [IdleDial EXCEPT !.state = "resolved", !.path = "http",
                             !.ma = [star |-> FALSE, peerId |-> "R1"],
                             !.signallingChannelType = "peer", !.channel = "live",
                             !.connected = TRUE, !.deferred = TRUE, !.readyEmitted = TRUE,
                             !.answerFed = TRUE, !.scOpened = TRUE]
  /\ http = [state |-> "done", signal |-> <<"z", "offer", <<0, 0>>>>,
             signalling_channel |-> "peer"]
  /\ tSignallingChannel = 1
  /\ dsc = [k \in DSCs |-> IF k = 1
                            THEN [state |-> "open", interval |-> TRUE, closeListener |-> TRUE,
                                  joinSent |-> EncodeJoinRequest(OwnPeerId)]
                            ELSE IdleDsc]
  /\ lsn = [IdleLsn EXCEPT !.receiver = "live", !.resEnded = TRUE,
                           !.resBody = <<"z", "answer", <<1, 1>>>>, !.bodies = 1,
                           !.scType = "peer", !.scHandler = TRUE, !.channels = 1, !.signals = 1]

\* ------------------------------------------------- idle values of SpecMesh
Relays == {"R1", "R2", "R3"}

\* the variables of SpecMesh while another specification runs
IdleMesh ==
  /\ topology = "single"
  /\ inbox = <<>>
  /\ hashingAt = [r \in Relays |-> <<>>]
  /\ seenCaches = [r \in Relays |-> {}]
  /\ expired = [r \in Relays |-> {}]
  /\ sent = [k \in {} |-> 0]
  /\ dropped = {}
  /\ receivers = <<>>
  /\ injected = 0

\* ------------------------------------------------------------- SpecRelay
\* the relay's tables before any channel exists
FreshRelay ==
  /\ rsState = [s \in SCs |-> "absent"]
  /\ rsKind = [s \in SCs |-> "none"]
  /\ rsCloseFired = [s \in SCs |-> FALSE]
  /\ peerSignallingChannelMap = [p \in PIDs |-> NoSC]
  /\ relaySignallingChannels = <<>>
  /\ seenCache = {}
  /\ messageHandler = {}
  /\ closeListeners = [s \in SCs |-> {}]
  /\ errorListeners = [s \in SCs |-> {}]
  /\ closingIntervals = {}
  /\ hashing = <<>>
  /\ lastForward = NoForward
  /\ lastJoin = [p \in PIDs |-> NoSC]
  /\ msgCount = 0

InitRelay ==
  /\ FreshRelay
  /\ IdleHttp
  /\ IdleMesh

\* history only: a PID's most recent JoinRequest stops counting once the
\* channel it arrived on has closed or errored
ForgetJoin(joins, s) == [p \in PIDs |-> IF joins[p] = s THEN NoSC ELSE joins[p]]

\* channels are numbered in the order they appear
NextSC == CHOOSE s \in SCs : rsState[s] = "absent" /\ \A t \in SCs : t < s => rsState[t] # "absent"

\* part_004:342-346, 360-429: a request with signalling_channel = peer | relay
\* reaches a listener with signalling enabled and its receiver emits
\* `signalling-channel`: the open and message handlers are installed
InboundSignallingChannel(type) ==
  /\ \E s \in SCs : rsState[s] = "absent"
  /\ LET s == NextSC IN
     /\ rsState' = [rsState EXCEPT ![s] = "connecting"]
     /\ rsKind' = [rsKind EXCEPT ![s] = type]
     /\ messageHandler' = messageHandler \cup {s}
  /\ UNCHANGED <<rsCloseFired, peerSignallingChannelMap, relaySignallingChannels,
                 seenCache, closeListeners, errorListeners, closingIntervals, hashing,
                 lastJoin, msgCount>>
  /\ lastForward' = NoForward
  /\ UNCHANGED <<httpVars, meshVars, peerVars, extVars>>

\* index.ts:308-313: the node's own dial engine creates a signalling channel
\* on an outbound connection; the server learns of it when it opens
DialedSignallingChannel ==
  /\ \E s \in SCs : rsState[s] = "absent"
  /\ LET s == NextSC IN
     /\ rsState' = [rsState EXCEPT ![s] = "connecting"]
     /\ rsKind' = [rsKind EXCEPT ![s] = "dialed"]
  /\ UNCHANGED <<rsCloseFired, peerSignallingChannelMap, relaySignallingChannels,
                 seenCache, messageHandler, closeListeners, errorListeners, closingIntervals,
                 hashing, lastJoin, msgCount>>
  /\ lastForward' = NoForward
  /\ UNCHANGED <<httpVars, meshVars, peerVars, extVars>>

\* the channel's `open` event.
\*  inbound relay: part_004:396-404 with trackRelaySignallingChannel (364-377)
\*  inbound peer : part_004:396-404, nothing is tracked
\*  dialed       : index.ts:349-351 calls registerSignallingChannel (part_004:207-239)
ScOpen(s) ==
  /\ rsState[s] = "connecting"
  /\ rsState' = [rsState EXCEPT ![s] = "open"]
  /\ CASE rsKind[s] = "relay" ->
            /\ relaySignallingChannels' = trackRelaySignallingChannel(relaySignallingChannels, s)
            /\ closingIntervals' = closingIntervals \cup {<<s, RelayClosure>>}
            /\ closeListeners' = [closeListeners EXCEPT ![s] = @ \cup {RelayClosure}]
            /\ errorListeners' = [errorListeners EXCEPT ![s] = @ \cup {RelayClosure}]
            /\ UNCHANGED messageHandler
       [] rsKind[s] = "dialed" ->
            /\ relaySignallingChannels' = trackRelaySignallingChannel(relaySignallingChannels, s)
            /\ messageHandler' = messageHandler \cup {s}
            /\ closingIntervals' = closingIntervals \cup {<<s, DialedClosure>>}
            /\ closeListeners' = [closeListeners EXCEPT ![s] = @ \cup {DialedClosure}]
            /\ UNCHANGED errorListeners
       [] OTHER ->
            UNCHANGED <<relaySignallingChannels, closingIntervals, closeListeners,
                        errorListeners, messageHandler>>
  /\ UNCHANGED <<rsKind, rsCloseFired, peerSignallingChannelMap, seenCache,
                 hashing, lastJoin, msgCount>>
  /\ lastForward' = NoForward
  /\ UNCHANGED <<httpVars, meshVars, peerVars, extVars>>

\* a `message` event carrying a JoinRequest.
\*  inbound peer : part_004:414-421, trackPeerSignallingChannel (379-394)
\*  inbound relay: part_004:415-417 throws, nothing changes
\*  dialed       : part_004:216-218 throws, nothing changes
JoinRequestEvent(s, p) ==
  /\ rsState[s] = "open"
  /\ s \in messageHandler
  /\ msgCount < MaxMsgs
  /\ msgCount' = msgCount + 1
  /\ IF rsKind[s] # "dialed" /\ tracksJoinRequest(rsKind[s])
     THEN /\ peerSignallingChannelMap' = trackPeerSignallingChannel(peerSignallingChannelMap, p, s)
          /\ closingIntervals' = closingIntervals \cup {<<s, PeerClosure(p)>>}
          /\ closeListeners' = [closeListeners EXCEPT ![s] = @ \cup {PeerClosure(p)}]
          /\ errorListeners' = [errorListeners EXCEPT ![s] = @ \cup {PeerClosure(p)}]
          /\ lastJoin' = [lastJoin EXCEPT ![p] = s]
     ELSE UNCHANGED <<peerSignallingChannelMap, closingIntervals, closeListeners,
                      errorListeners, lastJoin>>
  /\ UNCHANGED <<rsState, rsKind, rsCloseFired, relaySignallingChannels, seenCache,
                 messageHandler, hashing>>
  /\ lastForward' = NoForward
  /\ UNCHANGED <<httpVars, meshVars, peerVars, extVars>>

\* a `message` event carrying any other message: the handler runs up to
\* `await sha256.encode(msg)` (part_004:220, 424, 432-434, 444)
ConnectMessageEvent(s, bytes) ==
  /\ rsState[s] = "open"
  /\ s \in messageHandler
  /\ ParseMessage(bytes).type # "JoinRequest"
  /\ msgCount < MaxMsgs
  /\ msgCount' = msgCount + 1
  /\ hashing' = Append(hashing, <<s, bytes>>)
  /\ UNCHANGED <<rsState, rsKind, rsCloseFired, peerSignallingChannelMap,
                 relaySignallingChannels, seenCache, messageHandler, closeListeners,
                 errorListeners, closingIntervals, lastJoin>>
  /\ lastForward' = NoForward
  /\ UNCHANGED <<httpVars, meshVars, peerVars, extVars>>

\* the continuation after the digest: _isMsgSeen's lookup and put, then
\* _forwardSignallingMessage (part_004:435-440, 447-452, 455-482)
HashDone(i) ==
  /\ i \in 1..Len(hashing)
  /\ LET from == hashing[i][1]
         bytes == hashing[i][2]
         dst == ParseMessage(bytes).dst
     IN
     /\ hashing' = RemoveAt(hashing, i)
     /\ IF isMsgSeen(seenCache, bytes)
        THEN /\ lastForward' = [NoForward EXCEPT !.kind = "seen", !.from = from, !.bytes = bytes]
             /\ UNCHANGED seenCache
        ELSE /\ seenCache' = seenCachePut(seenCache, bytes)
             /\ lastForward' =
                  [kind |-> "forward", from |-> from, bytes |-> bytes, dst |-> dst,
                   sends |-> forwardSignallingMessage(peerSignallingChannelMap,
                                                      relaySignallingChannels, from, dst)]
  /\ UNCHANGED <<rsState, rsKind, rsCloseFired, peerSignallingChannelMap,
                 relaySignallingChannels, messageHandler, closeListeners, errorListeners,
                 closingIntervals, lastJoin, msgCount>>
  /\ UNCHANGED <<httpVars, meshVars, peerVars, extVars>>

\* the channel's readyState becomes `closed` (the close event may follow, late or never)
ScClosed(s) ==
  /\ rsState[s] \in {"connecting", "open"}
  /\ rsState' = [rsState EXCEPT ![s] = "closed"]
  /\ lastJoin' = ForgetJoin(lastJoin, s)
  /\ UNCHANGED <<rsKind, rsCloseFired, peerSignallingChannelMap,
                 relaySignallingChannels, seenCache, messageHandler, closeListeners,
                 errorListeners, closingIntervals, hashing, msgCount>>
  /\ lastForward' = NoForward
  /\ UNCHANGED <<httpVars, meshVars, peerVars, extVars>>

\* the channel's `close` event: every once-listener clears its interval and
\* untracks (part_004:235-238, 372-375, 389-392; 226-231 also drops the
\* message handler of a dialed channel)
ScCloseEvent(s) ==
  /\ rsState[s] = "closed"
  /\ ~rsCloseFired[s]
  /\ rsCloseFired' = [rsCloseFired EXCEPT ![s] = TRUE]
  /\ LET cls == closeListeners[s] IN
     /\ peerSignallingChannelMap' = MapAfterUntrack(peerSignallingChannelMap, cls)
     /\ relaySignallingChannels' = ListAfterUntrack(relaySignallingChannels, s, cls)
     /\ closingIntervals' = closingIntervals \ {<<s, cl>> : cl \in cls}
     /\ messageHandler' = IF DialedClosure \in cls THEN messageHandler \ {s} ELSE messageHandler
  /\ closeListeners' = [closeListeners EXCEPT ![s] = {}]
  /\ UNCHANGED <<rsState, rsKind, seenCache, errorListeners, hashing,
                 lastJoin, msgCount>>
  /\ lastForward' = NoForward
  /\ UNCHANGED <<httpVars, meshVars, peerVars, extVars>>

\* an `error` event on the channel: the error listeners untrack
\* (part_004:376, 393); intervals and close listeners stay
ScErrorEvent(s) ==
  /\ rsState[s] = "open"
  /\ LET cls == errorListeners[s] IN
     /\ peerSignallingChannelMap' = MapAfterUntrack(peerSignallingChannelMap, cls)
     /\ relaySignallingChannels' = ListAfterUntrack(relaySignallingChannels, s, cls)
  /\ lastJoin' = ForgetJoin(lastJoin, s)
  /\ UNCHANGED <<rsState, rsKind, rsCloseFired, seenCache, messageHandler, closeListeners,
                 errorListeners, closingIntervals, hashing, msgCount>>
  /\ lastForward' = NoForward
  /\ UNCHANGED <<httpVars, meshVars, peerVars, extVars>>

\* helpers.ts:7-17: a tick of one closing interval that finds the channel closed
HealthTick(s, cl) ==
  /\ <<s, cl>> \in closingIntervals
  /\ rsState[s] = "closed"
  /\ closingIntervals' = closingIntervals \ {<<s, cl>>}
  /\ peerSignallingChannelMap' = MapAfterUntrack(peerSignallingChannelMap, {cl})
  /\ relaySignallingChannels' = ListAfterUntrack(relaySignallingChannels, s, {cl})
  /\ messageHandler' = IF cl = DialedClosure THEN messageHandler \ {s} ELSE messageHandler
  /\ UNCHANGED <<rsState, rsKind, rsCloseFired, seenCache, closeListeners,
                 errorListeners, hashing, lastJoin, msgCount>>
  /\ lastForward' = NoForward
  /\ UNCHANGED <<httpVars, meshVars, peerVars, extVars>>

\* timed-cache TTL (constants.ts:14, part_004:168): an entry expires
SeenExpire(d) ==
  /\ d \in seenCache
  /\ seenCache' = seenCache \ {d}
  /\ UNCHANGED <<rsState, rsKind, rsCloseFired, peerSignallingChannelMap,
                 relaySignallingChannels, messageHandler, closeListeners, errorListeners,
                 closingIntervals, hashing, lastJoin, msgCount>>
  /\ lastForward' = NoForward
  /\ UNCHANGED <<httpVars, meshVars, peerVars, extVars>>

Closures == {PeerClosure(p) : p \in PIDs} \cup {RelayClosure, DialedClosure}

NextRelay ==
  \/ \E type \in {"peer", "relay"} : InboundSignallingChannel(type)
  \/ DialedSignallingChannel
  \/ \E s \in SCs : ScOpen(s)
  \/ \E s \in SCs, p \in PIDs : JoinRequestEvent(s, p)
  \/ \E s \in SCs, bytes \in RelayInputs : ConnectMessageEvent(s, bytes)
  \/ \E i \in 1..MaxMsgs : HashDone(i)
  \/ \E s \in SCs : ScClosed(s)
  \/ \E s \in SCs : ScCloseEvent(s)
  \/ \E s \in SCs : ScErrorEvent(s)
  \/ \E s \in SCs, cl \in Closures : HealthTick(s, cl)
  \/ \E d \in {Digest(b) : b \in RelayInputs} : SeenExpire(d)

SpecRelay == InitRelay /\ [][NextRelay]_vars

\* ------------------------------------------------------ claims on SpecRelay

\* C2: for every PID p, if the channel on which p's most recent JoinRequest
\* arrived has neither closed nor errored, then peerTable[p] is that channel.
C2_NewestJoinWins ==
  \A p \in PIDs : lastJoin[p] # NoSC => peerSignallingChannelMap[p] = lastJoin[p]

\* C3: a channel whose close event has been dispatched is in neither routing
\* table, from that event on.
C3_ClosedChannelUntracked ==
  \A s \in SCs :
    rsCloseFired[s] =>
      /\ s \notin Range(peerSignallingChannelMap)
      /\ SeqCount(relaySignallingChannels, s) = 0

\* a tracked channel (its untrack closures were registered) has emitted close
C3_Witness ==
  \E s \in SCs : rsCloseFired[s] /\ errorListeners[s] # {}

\* C5: a not-yet-seen message from channel `from` for `dst` is sent exactly
\* once on peerTable[dst] and on no relayList channel when dst is in peerTable;
\* otherwise exactly once on every relayList channel other than `from` and not
\* on `from`.
C5_ForwardingRule ==
  lastForward.kind = "forward" =>
    LET dst == lastForward.dst
        from == lastForward.from
        sends == lastForward.sends
        inTable == dst \in PIDs /\ peerSignallingChannelMap[dst] # NoSC
    IN IF inTable
       THEN /\ sends = <<peerSignallingChannelMap[dst]>>
            /\ \A s \in Range(relaySignallingChannels) : SeqCount(sends, s) = 0
       ELSE \A s \in SCs :
              SeqCount(sends, s) =
                IF s # from /\ s \in Range(relaySignallingChannels) THEN 1 ELSE 0

\* both branches happen: a direct send, and a flood that skips `from`
C5_Witness ==
  /\ lastForward.kind = "forward"
  /\ lastForward.from \in Range(relaySignallingChannels)
  /\ Len(lastForward.sends) = 1
  /\ peerSignallingChannelMap[lastForward.dst] = NoSC

\* ------------------------------------------------------------ SpecHttp
\* ---- addresses (index.ts:96, 115, 125; part_007:55)
\* a multiaddr as far as the transport looks at it: whether its string
\* contains P2P_WEBRTC_STAR_ID, and what getPeerId() returns (the last /p2p/
\* component): the primary relay R1, another relay R2, or null
TargetPids == {"R1", "R2", "null"}
Addresses == [star : BOOLEAN, peerId : TargetPids]
hasStar(ma) == ma.star
getPeerId(ma) == ma.peerId

\* ---- offer/answer envelopes on the HTTP path (index.ts:237-268, part_004:273-296)
OfferSignal == [type |-> "offer", sdp |-> <<0, 0>>]
\* the k-th local signal of receiver i: its answer, then candidates
ReceiverSignal(i, k) == [type |-> IF k = 1 THEN "answer" ELSE "candidate", sdp |-> <<i, k>>]
\* JSON.stringify / JSON.parse of a Signal
SignalToJson(sig) == <<sig.type, sig.sdp>>
JsonToSignal(json) == [type |-> json[1], sdp |-> json[2]]
\* base58btc.encode / decode (multibase prefix "z")
Base58Encode(bytes) == <<"z">> \o bytes
Base58Decode(str) == Tail(str)


\* ---- the dial engine's decisions (index.ts:89-134)
\* mutant: the star check of a transport without signalling is dropped
dialRejectsStar_Never(enableSignalling, ma) == FALSE

\* index.ts:92-98: signalling disabled and the address contains the star id
dialRejectsStar(enableSignalling, ma) == ~enableSignalling /\ hasStar(ma)

\* index.ts:113-118: signalling enabled and the address contains the star id
dialUsesSignallingChannel(enableSignalling, ma) == enableSignalling /\ hasStar(ma)

\* mutant: the comparison with the primary relay's id is inverted
dialSignallingChannelType_Inverted(enableSignalling, nodeType, relayPeerId, ma) ==
  IF ~enableSignalling THEN "none"
  ELSE IF nodeType = "Peer"
       THEN (IF getPeerId(ma) # relayPeerId THEN "peer" ELSE "none")
       ELSE "relay"

\* index.ts:101, 122-133: the signallingChannelType _connect is called with
dialSignallingChannelType(enableSignalling, nodeType, relayPeerId, ma) ==
  IF ~enableSignalling THEN "none"
  ELSE IF nodeType = "Peer"
       THEN (IF getPeerId(ma) = relayPeerId THEN "peer" ELSE "none")
       ELSE "relay"

\* ---- promise plumbing of _connect (index.ts:165-229)
\* mutant: the rejection is lost
reject_Lost(d, err) == d

\* reject(err): settles the promise if it is still pending
reject(d, err) ==
  IF d.state = "pending" THEN [d EXCEPT !.state = "rejected", !.error = err] ELSE d

\* mutant: done settles the promise and leaves the listeners installed
done_KeepsListeners(d, err) ==
  IF d.state = "pending"
  THEN [d EXCEPT !.state = IF err = "" THEN "resolved" ELSE "rejected", !.error = err]
  ELSE d

\* index.ts:208-218 done(err): listeners removed, promise settled
done(d, err) ==
  LET off == [d EXCEPT !.onError = FALSE, !.onReady = FALSE, !.onAbort = FALSE]
  IN IF off.state = "pending"
     THEN [off EXCEPT !.state = IF err = "" THEN "resolved" ELSE "rejected", !.error = err]
     ELSE off

\* index.ts:194-197: onReady after the deferred has resolved
onReadyContinue(d) == done([d EXCEPT !.connected = TRUE, !.readyAwaiting = FALSE], "")

\* mutant: onReady reports the connection without awaiting the deferred
onReady_NoWait(d) == onReadyContinue(d)

\* index.ts:188-199 onReady: waits for deferredSignallingChannel
onReady(d) == IF d.deferred THEN onReadyContinue(d) ELSE [d EXCEPT !.readyAwaiting = TRUE]

\* index.ts:376 deferredSignallingChannel.resolve(), and the resumption of a
\* suspended onReady
resolveDeferred(d) ==
  LET r == [d EXCEPT !.deferred = TRUE]
  IN IF d.readyAwaiting /\ ~d.deferred THEN onReadyContinue(r) ELSE r

\* ---- signalling channels of the initiator (index.ts:308-397)
FreeDsc(chs) == {k \in DSCs : chs[k].state = "absent"}
LowestFree(chs) == CHOOSE k \in FreeDsc(chs) : \A j \in FreeDsc(chs) : k <= j

\* the model can follow _createSignallingChannel: it creates nothing, or a
\* channel number is left
CanCreate(chs, channelState) == channelState = "closed" \/ FreeDsc(chs) # {}

\* mutant: a channel is created on a closed connection as well
createSignallingChannel_OnClosed(chs, channelState) ==
  IF FreeDsc(chs) = {} THEN chs ELSE [chs EXCEPT ![LowestFree(chs)].state = "connecting"]

\* index.ts:308-313 _createSignallingChannel (the engine emits
\* `signalling-channel`, index.ts:316-396 installs the open and error handlers)
createSignallingChannel(chs, channelState) ==
  IF channelState = "closed" \/ FreeDsc(chs) = {}
  THEN chs
  ELSE [chs EXCEPT ![LowestFree(chs)].state = "connecting"]

\* ---- the dialling transport's own listener (part_007, part_004:31-149)
\* mutant: the listener ignores the channel
registerSignallingChannel_Ignored(l, k) == l

\* part_007:101-103 with part_004:49-74: the channel becomes the server's
\* signalling channel, gets the message handler, and `listening` sets the
\* listener's multiaddr (part_007:47-51)
registerSignallingChannel(l, k) ==
  IF l.server = "sig"
  THEN [l EXCEPT !.signallingChannel = k, !.handlers = @ \cup {k}, !.multiaddr = TRUE,
                 !.lastEvent = "listening"]
  ELSE l

\* mutant: the listener keeps its address when the channel is deregistered
deRegisterSignallingChannel_KeepsAddr(l) ==
  IF l.server = "sig"
  THEN [l EXCEPT !.signallingChannel = NoSC, !.lastEvent = "close"]
  ELSE l

\* part_007:105-116 with part_004:140-142
deRegisterSignallingChannel(l) ==
  IF l.server = "sig"
  THEN [l EXCEPT !.signallingChannel = NoSC, !.multiaddr = FALSE, !.lastEvent = "close"]
  ELSE l

\* part_004:65-69: the server's close listener of channel k removes the
\* message handler; closures that captured the channel hold a closed channel
channelGone(l, k) ==
  [l EXCEPT !.handlers = @ \ {k},
            !.captured = IF @ = k THEN GoneSC ELSE @,
            !.arrivedOn = IF @ = k THEN GoneSC ELSE @,
            !.answeredOn = IF @ = k THEN GoneSC ELSE @]

\* part_007:118-124
getAddrs(l) == IF l.multiaddr THEN {"listenAddr"} ELSE {}

\* ---- listener side (part_004:307-331)
\* part_004:313-329: the connection is tracked and emitted
emitConnection(l) ==
  [l EXCEPT !.connections = @ + 1, !.untrack = TRUE, !.connectionEmitted = TRUE,
            !.readyAwaiting = FALSE]

untrackConn_KeepsConnection(l) ==
  IF l.untrack THEN [l EXCEPT !.channels = 0, !.untrack = FALSE] ELSE l

untrackConn_KeepsChannel(l) ==
  IF l.untrack THEN [l EXCEPT !.connections = 0, !.untrack = FALSE] ELSE l

\* part_004:320-323 untrackConn, run by the receiver's close event
untrackConn(l) ==
  IF l.untrack THEN [l EXCEPT !.connections = 0, !.channels = 0, !.untrack = FALSE] ELSE l

\* ---- actions of the dialling transport
\* index.ts:89-134, 136-146, 148-229, 285-304: dial, up to the first suspension
Dial(ma, preAborted) ==
  /\ dial.state = "idle"
  /\ LET type == dialSignallingChannelType(cfg.enableSignalling, cfg.nodeType, cfg.relayPeerId, ma)
         d0 == [dial EXCEPT !.ma = ma, !.aborted = preAborted]
     IN
     IF dialRejectsStar(cfg.enableSignalling, ma)
     THEN /\ dial' = [d0 EXCEPT !.state = "rejected", !.error = "RejectedAddress"]
          /\ UNCHANGED dsc
     ELSE IF dialUsesSignallingChannel(cfg.enableSignalling, ma)
     THEN \* index.ts:136-146; the transport of this specification holds no
          \* signalling channel before its dial
          /\ tSignallingChannel = NoSC
          /\ dial' = [d0 EXCEPT !.state = "rejected", !.path = "sc",
                                !.error = IF cfg.relayPeerId = "undefined"
                                          THEN "AssertionError" ELSE "RelayUnavailable"]
          /\ UNCHANGED dsc
     ELSE IF preAborted
     THEN \* index.ts:149-151
          /\ dial' = [d0 EXCEPT !.state = "rejected", !.error = "Aborted", !.path = "http",
                                !.signallingChannelType = type]
          /\ UNCHANGED dsc
     ELSE /\ dial' = [d0 EXCEPT !.state = "pending", !.path = "http",
                                !.signallingChannelType = type, !.channel = "live",
                                !.onError = TRUE, !.onReady = TRUE, !.onAbort = TRUE,
                                !.deferred = (type = "none")]
          /\ dsc' = IF type = "none" THEN dsc ELSE createSignallingChannel(dsc, "live")
  /\ UNCHANGED <<cfg, http, tSignallingChannel, lsn>>
  /\ UNCHANGED <<relayVars, meshVars, peerVars, extVars>>

\* index.ts:231-258, 277-283: the initiator emits its offer; onSignal sends it
InitiatorOffer ==
  /\ dial.channel = "live"
  /\ http.state = "none"
  /\ http' = [state |-> "inflight",
              signal |-> Base58Encode(SignalToJson(OfferSignal)),
              signalling_channel |-> dial.signallingChannelType]
  /\ UNCHANGED <<cfg, dial, tSignallingChannel, dsc, lsn>>
  /\ UNCHANGED <<relayVars, meshVars, peerVars, extVars>>

\* index.ts:259-270: the response arrives
FetchResponse ==
  /\ http.state = "inflight"
  /\ lsn.resEnded
  /\ http' = [http EXCEPT !.state = "done"]
  /\ dial' = IF lsn.resBody = <<>>
             THEN dial
             ELSE IF JsonToSignal(Base58Decode(lsn.resBody)).type = "answer"
                     /\ dial.channel = "live"
                  THEN [dial EXCEPT !.answerFed = TRUE]
                  ELSE dial
  /\ UNCHANGED <<cfg, tSignallingChannel, dsc, lsn>>
  /\ UNCHANGED <<relayVars, meshVars, peerVars, extVars>>

\* index.ts:271-274: fetch throws; the initiator is closed (its close event
\* removes onError, 226-228) and the promise rejected
FetchFails ==
  /\ http.state = "inflight"
  /\ http' = [http EXCEPT !.state = "failed"]
  /\ dial' = reject([dial EXCEPT !.channel = "closed", !.onError = FALSE], "FetchError")
  /\ UNCHANGED <<cfg, tSignallingChannel, dsc, lsn>>
  /\ UNCHANGED <<relayVars, meshVars, peerVars, extVars>>

\* the initiator emits `ready` (index.ts:188-199, 223-225)
InitiatorReady ==
  /\ dial.channel = "live"
  /\ dial.answerFed
  /\ ~dial.readyEmitted
  /\ dial' = LET d == [dial EXCEPT !.readyEmitted = TRUE]
             IN IF dial.onReady THEN onReady([d EXCEPT !.onReady = FALSE]) ELSE d
  /\ UNCHANGED <<cfg, http, tSignallingChannel, dsc, lsn>>
  /\ UNCHANGED <<relayVars, meshVars, peerVars, extVars>>

\* the initiator emits `error` (index.ts:176-186, 220-222)
InitiatorError ==
  /\ dial.channel = "live"
  /\ dial.onError
  /\ dial' = LET d == [dial EXCEPT !.onError = FALSE]
             IN IF ~dial.connected THEN done(d, "EngineError") ELSE d
  /\ UNCHANGED <<cfg, http, tSignallingChannel, dsc, lsn>>
  /\ UNCHANGED <<relayVars, meshVars, peerVars, extVars>>

\* the initiator emits `close` (index.ts:226-228)
InitiatorClose ==
  /\ dial.channel = "live"
  /\ dial' = [dial EXCEPT !.channel = "closed", !.onError = FALSE]
  /\ UNCHANGED <<cfg, http, tSignallingChannel, dsc, lsn>>
  /\ UNCHANGED <<relayVars, meshVars, peerVars, extVars>>

\* the caller's signal aborts (index.ts:201-206, 229)
Abort ==
  /\ dial.onAbort
  /\ ~dial.aborted
  /\ dial' = done([dial EXCEPT !.aborted = TRUE, !.channel = "closed", !.onError = FALSE],
                  "Aborted")
  /\ UNCHANGED <<cfg, http, tSignallingChannel, dsc, lsn>>
  /\ UNCHANGED <<relayVars, meshVars, peerVars, extVars>>

\* mutant: the open handler sends nothing
joinRequestOnOpen_Never(type) == <<>>

\* index.ts:353-373: what the open handler sends on the new channel, a
\* JoinRequest with the own id on a channel from a peer to its relay
joinRequestOnOpen(type) == IF type = "peer" THEN EncodeJoinRequest(OwnPeerId) ELSE <<>>

\* a signalling channel of the initiator opens (index.ts:334-377)
DScOpen(k) ==
  /\ dsc[k].state = "connecting"
  /\ dsc' = [dsc EXCEPT ![k] = [state |-> "open", interval |-> TRUE, closeListener |-> TRUE,
                                joinSent |-> joinRequestOnOpen(dial.signallingChannelType)]]
  /\ pl' = IF pl.server # "none" THEN registerSignallingChannel(pl, k) ELSE pl
  /\ tSignallingChannel' = IF dial.signallingChannelType = "peer" THEN k ELSE tSignallingChannel
  /\ dial' = resolveDeferred([dial EXCEPT !.scOpened = TRUE])
  /\ UNCHANGED <<cfg, http, lsn, sdial, srv, extVars>>
  /\ UNCHANGED <<relayVars, meshVars>>

\* the channel's readyState becomes closed
DScClosed(k) ==
  /\ dsc[k].state \in {"connecting", "open"}
  /\ dsc' = [dsc EXCEPT ![k].state = "closed"]
  /\ UNCHANGED <<cfg, dial, http, tSignallingChannel, lsn>>
  /\ UNCHANGED <<relayVars, meshVars, peerVars, extVars>>

\* the channel's close event (index.ts:339-344) with channelClosedHandler
\* (319-332); a channel whose close event has fired has no further behaviour
\* and leaves the model
DScCloseEvent(k) ==
  /\ dsc[k].state = "closed"
  /\ IF dsc[k].closeListener
     THEN /\ dsc' = createSignallingChannel([dsc EXCEPT ![k] = IdleDsc], dial.channel)
          /\ tSignallingChannel' = NoSC
          /\ pl' = channelGone(IF pl.server # "none" THEN deRegisterSignallingChannel(pl)
                                                     ELSE pl, k)
     ELSE /\ dsc' = [dsc EXCEPT ![k] = IdleDsc]
          /\ UNCHANGED <<tSignallingChannel, pl>>
  /\ UNCHANGED <<cfg, dial, http, lsn, sdial, srv, extVars>>
  /\ UNCHANGED <<relayVars, meshVars>>

\* helpers.ts:7-17 armed at index.ts:337: a tick that finds the channel closed
DScHealthTick(k) ==
  /\ dsc[k].interval
  /\ dsc[k].state = "closed"
  /\ CanCreate(dsc, dial.channel)
  /\ dsc' = createSignallingChannel([dsc EXCEPT ![k].interval = FALSE], dial.channel)
  /\ tSignallingChannel' = NoSC
  /\ pl' = IF pl.server # "none" THEN deRegisterSignallingChannel(pl) ELSE pl
  /\ UNCHANGED <<cfg, dial, http, lsn, sdial, srv, extVars>>
  /\ UNCHANGED <<relayVars, meshVars>>

\* the channel's error event (index.ts:379-393)
DScError(k, transportChannelClosed) ==
  /\ dsc[k].state \in {"connecting", "open"}
  /\ IF transportChannelClosed
     THEN dsc' = [dsc EXCEPT ![k].state = "closed"]
     ELSE /\ CanCreate(dsc, dial.channel)
          /\ dsc' = createSignallingChannel(dsc, dial.channel)
  /\ UNCHANGED <<cfg, dial, http, tSignallingChannel, lsn>>
  /\ UNCHANGED <<relayVars, meshVars, peerVars, extVars>>

\* ---- actions of the listener (WebRTCDirectServer.processRequest)
\* part_004:241-358: the request of the dial is processed
LRequest ==
  /\ http.state = "inflight"
  /\ lsn.receiver = "absent"
  /\ ~lsn.resEnded
  /\ LET incSignal == JsonToSignal(Base58Decode(http.signal))
         type == http.signalling_channel
     IN
     IF incSignal.type # "offer"
     THEN lsn' = [lsn EXCEPT !.resEnded = TRUE]
     ELSE lsn' = [lsn EXCEPT !.receiver = "live", !.channels = 1, !.scType = type,
                             !.scHandler = cfg.listenerSignallingEnabled /\ type \in {"peer", "relay"},
                             !.deferred = ~(cfg.listenerSignallingEnabled /\ type \in {"peer", "relay"})]
  /\ UNCHANGED <<cfg, dial, http, tSignallingChannel, dsc>>
  /\ UNCHANGED <<relayVars, meshVars, peerVars, extVars>>

\* part_004:291-297: the receiver emits a local signal; res.end(body) of an
\* already ended response writes nothing
LReceiverSignal ==
  /\ lsn.receiver = "live"
  /\ lsn.signals < MaxSignals
  /\ lsn' = IF lsn.resEnded
            THEN [lsn EXCEPT !.signals = @ + 1]
            ELSE [lsn EXCEPT !.signals = @ + 1, !.resEnded = TRUE, !.bodies = @ + 1,
                             !.resBody = Base58Encode(SignalToJson(ReceiverSignal(1, lsn.signals + 1)))]
  /\ UNCHANGED <<cfg, dial, http, tSignallingChannel, dsc>>
  /\ UNCHANGED <<relayVars, meshVars, peerVars, extVars>>

\* part_004:298-306: the receiver emits `error`: the response is ended and
\* the receiver closed (its close event runs untrackConn if registered)
LReceiverError ==
  /\ lsn.receiver = "live"
  /\ lsn' = untrackConn([lsn EXCEPT !.resEnded = TRUE, !.receiver = "closed"])
  /\ UNCHANGED <<cfg, dial, http, tSignallingChannel, dsc>>
  /\ UNCHANGED <<relayVars, meshVars, peerVars, extVars>>

\* part_004:307-331: the receiver emits `ready`
LReceiverReady ==
  /\ lsn.receiver = "live"
  /\ lsn.signals > 0
  /\ ~lsn.readyEmitted
  /\ lsn' = LET l == [lsn EXCEPT !.readyEmitted = TRUE]
            IN IF lsn.deferred THEN emitConnection(l) ELSE [l EXCEPT !.readyAwaiting = TRUE]
  /\ UNCHANGED <<cfg, dial, http, tSignallingChannel, dsc>>
  /\ UNCHANGED <<relayVars, meshVars, peerVars, extVars>>

\* the receiver emits `close` (part_004:320-327)
LReceiverClose ==
  /\ lsn.receiver = "live"
  /\ lsn' = untrackConn([lsn EXCEPT !.receiver = "closed"])
  /\ UNCHANGED <<cfg, dial, http, tSignallingChannel, dsc>>
  /\ UNCHANGED <<relayVars, meshVars, peerVars, extVars>>

\* the receiver emits `signalling-channel` for a channel the initiator
\* created, and the channel opens (part_004:345, 360-363, 396-404); what the
\* same handler does to the routing tables is ScOpen of SpecRelay
LScOpen(k) ==
  /\ lsn.receiver = "live"
  /\ lsn.scHandler
  /\ dsc[k].state # "absent"
  /\ lsn' = LET l == [lsn EXCEPT !.deferred = TRUE, !.scOpened = TRUE]
            IN IF lsn.readyAwaiting /\ ~lsn.deferred THEN emitConnection(l) ELSE l
  /\ UNCHANGED <<cfg, dial, http, tSignallingChannel, dsc>>
  /\ UNCHANGED <<relayVars, meshVars, peerVars, extVars>>

InitHttp ==
  /\ cfg \in [enableSignalling : BOOLEAN, nodeType : {"Peer", "Relay"},
              relayPeerId : RelayPeerIds, listenerSignallingEnabled : BOOLEAN]
  \* index.ts:72-78: the constructor of such a transport throws
  /\ ~(cfg.enableSignalling /\ cfg.nodeType = "Peer" /\ cfg.relayPeerId = "undefined")
  /\ dial = IdleDial
  /\ http = IdleRequest
  /\ tSignallingChannel = NoSC
  /\ dsc = [k \in DSCs |-> IdleDsc]
  /\ lsn = IdleLsn
  /\ IdlePeer
  /\ FreshRelay
  /\ IdleMesh

NextHttp ==
  \/ \E ma \in Addresses, preAborted \in BOOLEAN : Dial(ma, preAborted)
  \/ InitiatorOffer
  \/ FetchResponse
  \/ FetchFails
  \/ InitiatorReady
  \/ InitiatorError
  \/ InitiatorClose
  \/ Abort
  \/ \E k \in DSCs : DScOpen(k)
  \/ \E k \in DSCs : DScClosed(k)
  \/ \E k \in DSCs : DScCloseEvent(k)
  \/ \E k \in DSCs : DScHealthTick(k)
  \/ \E k \in DSCs, tcc \in BOOLEAN : DScError(k, tcc)
  \/ LRequest
  \/ LReceiverSignal
  \/ LReceiverError
  \/ LReceiverReady
  \/ LReceiverClose
  \/ \E k \in DSCs : LScOpen(k)

SpecHttp == InitHttp /\ [][NextHttp]_vars

\* ------------------------------------------------------------- SpecPeer
\* a Peer node with signalling enabled: its listener, its dial of a relay and
\* the signalling channels it opens on that connection
\* index.ts:551-560 createListener
CreateListener ==
  /\ pl.server = "none"
  /\ pl' = [pl EXCEPT !.server = "unset"]
  /\ UNCHANGED <<httpVars, sdial, srv, extVars>>
  /\ UNCHANGED <<relayVars, meshVars>>

\* part_007:41-73 listen on a star address with signalling enabled
Listen ==
  /\ pl.server = "unset"
  /\ ~pl.multiaddr
  /\ pl' = [pl EXCEPT !.server = "sig"]
  /\ UNCHANGED <<httpVars, sdial, srv, extVars>>
  /\ UNCHANGED <<relayVars, meshVars>>

\* the addresses of relays and plain peers (no star id)
PlainAddresses == {ma \in Addresses : ~hasStar(ma)}

InitPeer ==
  /\ cfg = [enableSignalling |-> TRUE, nodeType |-> "Peer", relayPeerId |-> "R1",
            listenerSignallingEnabled |-> TRUE]
  /\ dial = IdleDial
  /\ http = IdleRequest
  /\ tSignallingChannel = NoSC
  /\ dsc = [k \in DSCs |-> IdleDsc]
  /\ lsn = IdleLsn
  /\ IdlePeer
  /\ FreshRelay
  /\ IdleMesh

NextPeer ==
  \/ CreateListener
  \/ Listen
  \/ \E ma \in PlainAddresses, preAborted \in BOOLEAN : Dial(ma, preAborted)
  \/ InitiatorOffer
  \/ FetchResponse
  \/ InitiatorReady
  \/ InitiatorClose
  \/ \E k \in DSCs : DScOpen(k)
  \/ \E k \in DSCs : DScClosed(k)
  \/ \E k \in DSCs : DScCloseEvent(k)
  \/ \E k \in DSCs : DScHealthTick(k)
  \/ \E k \in DSCs, tcc \in BOOLEAN : DScError(k, tcc)
  \/ LRequest
  \/ LReceiverSignal

\* a connecting channel opens or closes, a closed channel is noticed by its
\* close event or by the health monitor (helpers.ts:7-17)
FairPeer ==
  /\ \A k \in DSCs : WF_vars(DScOpen(k))
  /\ \A k \in DSCs : WF_vars(DScCloseEvent(k) \/ DScHealthTick(k))

SpecPeer == InitPeer /\ [][NextPeer]_vars /\ FairPeer

\* ---- claims checked under SpecPeer
\* channel k emits `open` in this step
Opens(k) == dsc[k].state = "connecting" /\ dsc'[k].state = "open"

\* channelClosedHandler of channel k runs in this step: by the close event
\* (the channel leaves the model or its number is taken by the replacement)
\* or by a tick of the health monitor (the interval is cleared)
CloseHandled(k) ==
  /\ dsc[k].state = "closed"
  /\ dsc[k].closeListener
  /\ dsc'[k] # dsc[k]

\* a signalling channel is created on the parent connection in this step
Created == \E j \in DSCs : dsc[j].state # "connecting" /\ dsc'[j].state = "connecting"

\* an opened PeerSC has closed and the transport holds no open channel
PeerScDown ==
  /\ dial.signallingChannelType = "peer"
  /\ \E k \in DSCs : dsc[k].state = "closed" /\ dsc[k].closeListener
  /\ ~(tSignallingChannel # NoSC /\ dsc[tSignallingChannel].state = "open")

\* a channel has closed before it opened
ClosedBeforeOpen == \E k \in DSCs : dsc[k].state = "closed" /\ ~dsc[k].closeListener

\* the transport holds an open PeerSC on which its JoinRequest was sent
PeerScUp ==
  /\ tSignallingChannel # NoSC
  /\ dsc[tSignallingChannel].state = "open"
  /\ dsc[tSignallingChannel].joinSent = EncodeJoinRequest(OwnPeerId)

ErrorHandled(k) ==
  /\ dsc[k].state = "open"
  /\ \A j \in DSCs \ {k} : dsc[j].state = "absent"
  /\ Created
  /\ dsc'[k] = dsc[k]
  /\ UNCHANGED <<dial, tSignallingChannel>>

\* C16 (as stated in the specification): when a PeerSC reports an error other
\* than "Transport channel closed", the transport deregisters that channel
\* from its listener and creates a replacement channel on the parent
\* connection if that connection is not closed.
C16_ErrorDeregistersAndReplaces ==
  [][\A k \in DSCs :
       (ErrorHandled(k) /\ pl.server = "sig" /\ pl.signallingChannel = k) =>
          /\ pl'.signallingChannel = NoSC
          /\ getAddrs(pl') = {}
    ]_vars

C14_OpenHandlerBeforeReady ==
  /\ [][\A k \in DSCs :
          (Opens(k) /\ dial.signallingChannelType = "peer") =>
             /\ dsc'[k].joinSent # <<>>
             /\ ParseMessage(dsc'[k].joinSent).type = "JoinRequest"
             /\ ParseMessage(dsc'[k].joinSent).peerId = OwnPeerId
             /\ tSignallingChannel' = k
             /\ dsc'[k].interval
             /\ pl.server # "none" => pl' = registerSignallingChannel(pl, k)
             /\ pl.server = "sig" =>
                   pl'.signallingChannel = k /\ k \in pl'.handlers /\ getAddrs(pl') # {}
             /\ pl.server = "none" => pl' = pl
      ]_vars
  /\ [](dial.state = "resolved" /\ dial.signallingChannelType = "peer" =>
          /\ dial.scOpened
          /\ \A k \in DSCs : dsc[k].state = "open" => dsc[k].joinSent # <<>> /\ dsc[k].closeListener)

\* the first PeerSC has opened while the dial of the relay is still pending:
\* the JoinRequest is sent, the listener has the channel, the monitor runs
C14_Witness ==
  /\ dial.state = "pending"
  /\ \E k \in DSCs :
       /\ dsc[k].state = "open"
       /\ dsc[k].joinSent = EncodeJoinRequest(OwnPeerId)
       /\ dsc[k].interval
       /\ pl.signallingChannel = k
       /\ tSignallingChannel = k

\* ---- claims checked under SpecHttp
SignallingTypes == {"peer", "relay"}

\* C1 (as stated in the specification): a dial resolves, and a listener emits
\* `connection`, only after the engine's `ready`; and when the request asked for
\* a peer or relay signalling channel, only after that channel has opened.
C1_ReportedAfterReadyAndChannelOpen ==
  /\ dial.state = "resolved" =>
       /\ dial.readyEmitted
       /\ dial.signallingChannelType \in SignallingTypes => dial.scOpened
  /\ lsn.connectionEmitted =>
       /\ lsn.readyEmitted
       /\ lsn.scType \in SignallingTypes => lsn.scOpened

\* C1 (amended): a dial resolves, and a listener emits `connection`, only after
\* the engine's `ready`; when the request asked for a peer or relay signalling
\* channel, the dial resolves only after that channel has opened, and so does
\* the listener's `connection` provided the listener has signalling enabled.
C1_ReportedAfterReadyAndChannelOpenIfEnabled ==
  /\ dial.state = "resolved" =>
       /\ dial.readyEmitted
       /\ dial.signallingChannelType \in SignallingTypes => dial.scOpened
  /\ lsn.connectionEmitted =>
       /\ lsn.readyEmitted
       /\ (lsn.scType \in SignallingTypes /\ cfg.listenerSignallingEnabled) => lsn.scOpened

\* both ends have reported a connection made with a peer signalling channel,
\* the listener having signalling enabled
C1_Witness ==
  /\ dial.state = "resolved"
  /\ dial.signallingChannelType = "peer"
  /\ lsn.connectionEmitted
  /\ lsn.scType = "peer"
  /\ cfg.listenerSignallingEnabled

\* C9: the dial path follows the configuration and the address: signalling
\* disabled -> plain HTTP with no signalling channel; enabled and star address
\* -> the signalling-channel path; enabled, no star, Peer node -> HTTP asking
\* for a peer signalling channel if the address is the primary relay's, else
\* plain HTTP; enabled, no star, Relay node -> HTTP asking for a relay channel.
C9_DialPathSelection ==
  dial.state # "idle" =>
    LET star == hasStar(dial.ma)
        enabled == cfg.enableSignalling
        toRelay == getPeerId(dial.ma) = cfg.relayPeerId
        viaHttp(type) ==
          /\ dial.path = "http"
          /\ dial.signallingChannelType = type
          /\ http.state # "none" => http.signalling_channel = type
          /\ type = "none" => \A k \in DSCs : dsc[k].state = "absent"
    IN
    /\ (~enabled /\ ~star) => viaHttp("none")
    /\ (~enabled /\ star) => dial.path = ""
    /\ (enabled /\ star) => dial.path = "sc"
    /\ (enabled /\ ~star /\ cfg.nodeType = "Peer" /\ toRelay) => viaHttp("peer")
    /\ (enabled /\ ~star /\ cfg.nodeType = "Peer" /\ ~toRelay) => viaHttp("none")
    /\ (enabled /\ ~star /\ cfg.nodeType = "Relay") => viaHttp("relay")

\* a Peer node's dial to its primary relay has sent its request
C9_Witness ==
  /\ cfg.enableSignalling
  /\ cfg.nodeType = "Peer"
  /\ getPeerId(dial.ma) = cfg.relayPeerId
  /\ ~hasStar(dial.ma)
  /\ http.state = "inflight"
  /\ http.signalling_channel = "peer"

\* C10: with signalling disabled, the dial of a star address is rejected with
\* the rejected-address error and has no other effect, at the dial and ever after.
C10_StarDialRejectedWithoutEffect ==
  [][ /\ (dial.state = "idle" /\ dial'.state # "idle"
            /\ ~cfg.enableSignalling /\ hasStar(dial'.ma)) =>
          /\ dial'.state = "rejected"
          /\ dial'.error = "RejectedAddress"
          /\ dial'.channel = "absent"
          /\ UNCHANGED <<cfg, http, tSignallingChannel, dsc, lsn>>
      /\ (dial.state # "idle" /\ ~cfg.enableSignalling /\ hasStar(dial.ma)) =>
          UNCHANGED httpVars
    ]_vars

\* a star address has been dialled with signalling disabled
C10_Witness ==
  /\ ~cfg.enableSignalling
  /\ dial.state = "rejected"
  /\ dial.error = "RejectedAddress"
  /\ hasStar(dial.ma)

\* ------------------------------------------------------------- SpecMesh
\* ---- the channels of a mesh after registration
\* a signalling channel between nodes a and b; kind "peer": a is a peer whose
\* JoinRequest b has tracked (part_004:379-394); kind "relay": both ends hold
\* it in their relay list (part_004:207-239, 364-377)
Edge(a, b, kind) == [a |-> a, b |-> b, kind |-> kind]

\* one relay; two relays in line; two relays joined twice (each dialled the
\* other); three relays in a cycle
Topologies ==
  [single   |-> <<Edge("P1", "R1", "peer"), Edge("P2", "R1", "peer")>>,
   line     |-> <<Edge("P1", "R1", "peer"), Edge("R1", "R2", "relay"),
                  Edge("P2", "R2", "peer")>>,
   double   |-> <<Edge("P1", "R1", "peer"), Edge("R1", "R2", "relay"),
                  Edge("R1", "R2", "relay"), Edge("P2", "R2", "peer")>>,
   triangle |-> <<Edge("P1", "R1", "peer"), Edge("R1", "R2", "relay"),
                  Edge("R2", "R3", "relay"), Edge("R3", "R1", "relay"),
                  Edge("P2", "R3", "peer")>>]

Edges == Topologies[topology]
EdgeIds == 1..Len(Edges)
Ends(e) == {Edges[e].a, Edges[e].b}
OtherEnd(e, n) == IF Edges[e].a = n THEN Edges[e].b ELSE Edges[e].a

\* part_004:161 peerSignallingChannelMap of relay r
meshPeerMap(r) ==
  [p \in AllPIDs |->
     IF \E e \in EdgeIds : Edges[e] = Edge(p, r, "peer")
     THEN CHOOSE e \in EdgeIds : Edges[e] = Edge(p, r, "peer")
     ELSE NoSC]

\* part_004:165 relaySignallingChannels of relay r
meshRelayList(r) ==
  SelectSeq([e \in EdgeIds |-> e], LAMBDA e : Edges[e].kind = "relay" /\ r \in Ends(e))

\* part_004:37 this.signallingChannel of P2's WebRTCDirectSigServer
listenerSignallingChannel == CHOOSE e \in EdgeIds : Edges[e].a = "P2"

\* RTCDataChannel.send by node n on each channel of `sends`
Deliver(inb, n, sends, bytes) ==
  [e \in DOMAIN inb |->
     IF SeqCount(sends, e) > 0
     THEN [inb[e] EXCEPT ![OtherEnd(e, n)] = Append(@, bytes)]
     ELSE inb[e]]

\* the send calls of relay r, counted
SentAfter(f, r, sends, bytes) ==
  LET keys == {<<r, sends[i], bytes>> : i \in 1..Len(sends)}
  IN [k \in DOMAIN f \cup keys |->
        (IF k \in DOMAIN f THEN f[k] ELSE 0)
        + (IF k \in keys THEN SeqCount(sends, k[2]) ELSE 0)]

SentCount(r, e, bytes) == IF <<r, e, bytes>> \in DOMAIN sent THEN sent[<<r, e, bytes>>] ELSE 0

MeshExpiries == Cardinality(expired["R1"]) + Cardinality(expired["R2"]) + Cardinality(expired["R3"])

\* ---- the dialling peer P1 (index.ts:399-544)
\* mutant: the response filter compares src and dst the wrong way round
isResponseFor_Swapped(msg, dstPeerId, peerId) ==
  msg.type = "ConnectResponse" /\ msg.src = peerId /\ msg.dst = dstPeerId

\* mutant: the response filter does not look at the sender
isResponseFor_AnySource(msg, dstPeerId, peerId) ==
  msg.type = "ConnectResponse" /\ msg.dst = peerId

\* index.ts:505-509
isResponseFor(msg, dstPeerId, peerId) ==
  msg.type = "ConnectResponse" /\ msg.src = dstPeerId /\ msg.dst = peerId

\* index.ts:141 `this.signallingChannel == null`, negated
holdsSignallingChannel(sc) == sc # NoSC

\* index.ts:89-93, 112-118, 136-146, 399-476: dial of a star address by a
\* peer whose primary relay is configured
DialUsingSignallingChannel(ma, preAborted) ==
  /\ sdial.state = "idle"
  /\ dialUsesSignallingChannel(cfg.enableSignalling, ma)
  /\ cfg.relayPeerId # "undefined"
  /\ LET d0 == [sdial EXCEPT !.ma = ma, !.aborted = preAborted, !.path = "sc"]
     IN sdial' = IF ~holdsSignallingChannel(tSignallingChannel)
                THEN \* index.ts:141-143
                     [d0 EXCEPT !.state = "rejected", !.error = "RelayUnavailable"]
                ELSE IF preAborted \/ getPeerId(ma) = "null"
                THEN \* index.ts:403-405, 421-424
                     [d0 EXCEPT !.state = "rejected", !.error = "Aborted"]
                ELSE [d0 EXCEPT !.state = "pending", !.channel = "live", !.onError = TRUE,
                                !.onReady = TRUE, !.onAbort = TRUE]
  /\ UNCHANGED <<httpVars, pl, srv, extVars>>
  /\ UNCHANGED <<relayVars, meshVars>>

\* index.ts:478-526, 536-542: the initiator emits its offer; onSignal installs
\* onMessage and sends the ConnectRequest
ScInitiatorOffer ==
  /\ sdial.path = "sc"
  /\ sdial.channel = "live"
  /\ ~sdial.requestSent
  /\ ~sdial.onMessage
  /\ IF tSignallingChannel = NoSC
     THEN \* index.ts:487 the assertion fails outside the try block: the
          \* engine is closed (538-540), the promise is left unsettled
          /\ sdial' = [sdial EXCEPT !.channel = "closed", !.onError = FALSE]
          /\ UNCHANGED inbox
     ELSE IF dsc[tSignallingChannel].state = "open"
     THEN /\ sdial' = [sdial EXCEPT !.requestSent = TRUE, !.onMessage = TRUE]
          /\ inbox' = Deliver(inbox, "P1", <<tSignallingChannel>>,
                              EncodeConnect("ConnectRequest", "P1", getPeerId(sdial.ma),
                                            SignalToJson(OfferSignal)))
     ELSE \* index.ts:520-525 send throws on a channel that is not open; the
          \* exception is logged and the dial goes on waiting for a response
          /\ sdial' = [sdial EXCEPT !.onMessage = TRUE]
          /\ UNCHANGED inbox
  /\ UNCHANGED <<httpVars, pl, srv, extVars>>
  /\ UNCHANGED <<topology, hashingAt, seenCaches, expired, sent, dropped, receivers, injected>>
  /\ UNCHANGED relayVars

\* a message event on P1's signalling channel: onMessage while installed
\* (index.ts:500-518, 528-529)
DialerMessage(e) ==
  /\ e \in EdgeIds
  /\ "P1" \in Ends(e)
  /\ inbox[e]["P1"] # <<>>
  /\ inbox' = [inbox EXCEPT ![e]["P1"] = Tail(@)]
  /\ LET msg == ParseMessage(Head(inbox[e]["P1"]))
     IN sdial' = IF sdial.onMessage /\ isResponseFor(msg, getPeerId(sdial.ma), "P1")
                THEN [sdial EXCEPT !.onMessage = FALSE,
                                  !.answerFed = @ \/ (JsonToSignal(msg.signal).type = "answer"
                                                       /\ sdial.channel = "live")]
                ELSE sdial
  /\ UNCHANGED <<httpVars, pl, srv, extVars>>
  /\ UNCHANGED <<topology, hashingAt, seenCaches, expired, sent, dropped, receivers, injected>>
  /\ UNCHANGED relayVars

\* the initiator emits `ready` (index.ts:441-446, 470-472)
ScInitiatorReady ==
  /\ sdial.path = "sc"
  /\ sdial.channel = "live"
  /\ sdial.answerFed
  /\ ~sdial.readyEmitted
  /\ sdial' = LET d == [sdial EXCEPT !.readyEmitted = TRUE]
             IN IF sdial.onReady THEN onReadyContinue([d EXCEPT !.onReady = FALSE]) ELSE d
  /\ UNCHANGED <<httpVars, pl, srv, extVars>>
  /\ UNCHANGED <<relayVars, meshVars>>

\* the initiator emits `error` (index.ts:429-439, 467-469)
ScInitiatorError ==
  /\ sdial.path = "sc"
  /\ sdial.channel = "live"
  /\ sdial.onError
  /\ sdial' = LET d == [sdial EXCEPT !.onError = FALSE]
             IN IF ~sdial.connected THEN done(d, "EngineError") ELSE d
  /\ UNCHANGED <<httpVars, pl, srv, extVars>>
  /\ UNCHANGED <<relayVars, meshVars>>

\* the caller's signal aborts (index.ts:448-453, 476)
ScAbort ==
  /\ sdial.path = "sc"
  /\ sdial.onAbort
  /\ ~sdial.aborted
  /\ sdial' = done([sdial EXCEPT !.aborted = TRUE, !.channel = "closed", !.onError = FALSE],
                  "Aborted")
  /\ UNCHANGED <<httpVars, pl, srv, extVars>>
  /\ UNCHANGED <<relayVars, meshVars>>

\* ---- the listening peer P2 (WebRTCDirectSigServer, part_004:31-149)
\* a message event on P2's signalling channel (part_004:52-62, 76-138)
ListenerMessage(e) ==
  /\ e \in EdgeIds
  /\ "P2" \in Ends(e)
  /\ inbox[e]["P2"] # <<>>
  /\ LET msg == ParseMessage(Head(inbox[e]["P2"]))
         accepted == msg.type = "ConnectRequest" /\ JsonToSignal(msg.signal).type = "offer"
     IN
     /\ receivers' = IF accepted
                     THEN Append(receivers, [state |-> "live", signals |-> 0, responses |-> 0,
                                             readyEmitted |-> FALSE,
                                             src |-> msg.src, dst |-> msg.dst])
                     ELSE receivers
  /\ inbox' = [inbox EXCEPT ![e]["P2"] = Tail(@)]
  /\ UNCHANGED <<topology, hashingAt, seenCaches, expired, sent, dropped, injected>>
  /\ UNCHANGED <<relayVars, httpVars, peerVars, extVars>>

\* part_004:93-111: receiver i emits a local signal; a ConnectResponse is sent
SigReceiverSignal(i) ==
  /\ i \in 1..Len(receivers)
  /\ receivers[i].state = "live"
  /\ receivers[i].signals < MaxSignals
  /\ receivers' = [receivers EXCEPT ![i].signals = @ + 1, ![i].responses = @ + 1]
  /\ inbox' = Deliver(inbox, "P2", <<listenerSignallingChannel>>,
                      EncodeConnect("ConnectResponse", receivers[i].dst, receivers[i].src,
                                    SignalToJson(ReceiverSignal(i, receivers[i].signals + 1))))
  /\ UNCHANGED <<topology, hashingAt, seenCaches, expired, sent, dropped, injected>>
  /\ UNCHANGED <<relayVars, httpVars, peerVars, extVars>>

\* part_004:120-135: receiver i emits `ready`; `connection` is dispatched
SigReceiverReady(i) ==
  /\ i \in 1..Len(receivers)
  /\ receivers[i].state = "live"
  /\ receivers[i].signals > 0
  /\ ~receivers[i].readyEmitted
  /\ receivers' = [receivers EXCEPT ![i].readyEmitted = TRUE]
  /\ UNCHANGED <<topology, inbox, hashingAt, seenCaches, expired, sent, dropped, injected>>
  /\ UNCHANGED <<relayVars, httpVars, peerVars, extVars>>

\* part_004:112-119: receiver i emits `error` and is closed
SigReceiverError(i) ==
  /\ i \in 1..Len(receivers)
  /\ receivers[i].state = "live"
  /\ receivers' = [receivers EXCEPT ![i].state = "closed"]
  /\ UNCHANGED <<topology, inbox, hashingAt, seenCaches, expired, sent, dropped, injected>>
  /\ UNCHANGED <<relayVars, httpVars, peerVars, extVars>>

\* ---- the relays (part_004:407-482)
\* a message event on channel e at relay r (part_004:407-426, 432-434, 443-444);
\* the channels of the mesh have joined, no JoinRequest travels
MeshMessageEvent(r, e) ==
  /\ r \in Relays
  /\ e \in EdgeIds
  /\ r \in Ends(e)
  /\ inbox[e][r] # <<>>
  /\ ParseMessage(Head(inbox[e][r])).type # "JoinRequest"
  /\ inbox' = [inbox EXCEPT ![e][r] = Tail(@)]
  /\ hashingAt' = [hashingAt EXCEPT ![r] = Append(@, <<e, Head(inbox[e][r])>>)]
  /\ UNCHANGED <<topology, seenCaches, expired, sent, dropped, receivers, injected>>
  /\ UNCHANGED <<relayVars, httpVars, peerVars, extVars>>

\* the continuation after the digest (part_004:435-440, 447-452, 455-482);
\* the digests of a relay are computed synchronously, so the continuations
\* resume in the order of the message events
MeshHashDone(r) ==
  /\ r \in Relays
  /\ hashingAt[r] # <<>>
  /\ LET from == Head(hashingAt[r])[1]
         bytes == Head(hashingAt[r])[2]
         sends == forwardSignallingMessage(meshPeerMap(r), meshRelayList(r), from,
                                           ParseMessage(bytes).dst)
     IN
     /\ hashingAt' = [hashingAt EXCEPT ![r] = Tail(@)]
     /\ IF isMsgSeen(seenCaches[r], bytes)
        THEN /\ dropped' = dropped \cup {<<r, bytes>>}
             /\ UNCHANGED <<seenCaches, inbox, sent>>
        ELSE /\ seenCaches' = [seenCaches EXCEPT ![r] = seenCachePut(@, bytes)]
             /\ inbox' = Deliver(inbox, r, sends, bytes)
             /\ sent' = SentAfter(sent, r, sends, bytes)
             /\ UNCHANGED dropped
  /\ UNCHANGED <<topology, expired, receivers, injected>>
  /\ UNCHANGED <<relayVars, httpVars, peerVars, extVars>>

\* timed-cache drops an entry SEEN_CACHE_TTL after its put (part_004:168)
MeshSeenExpire(r, d) ==
  /\ r \in Relays
  /\ d \in seenCaches[r]
  /\ d \notin expired[r]
  /\ MeshExpiries < MaxExpiry
  /\ seenCaches' = [seenCaches EXCEPT ![r] = @ \ {d}]
  /\ expired' = [expired EXCEPT ![r] = @ \cup {d}]
  /\ UNCHANGED <<topology, inbox, hashingAt, sent, dropped, receivers, injected>>
  /\ UNCHANGED <<relayVars, httpVars, peerVars, extVars>>

\* the star addresses dialled: P2, a peer no relay knows, no peer id
StarAddresses == [star : {TRUE}, peerId : {"P2", "PX", "null"}]

MeshOf(names) ==
  /\ topology \in names
  /\ inbox = [e \in 1..Len(Topologies[topology]) |->
                [n \in {Topologies[topology][e].a, Topologies[topology][e].b} |-> <<>>]]
  /\ hashingAt = [r \in Relays |-> <<>>]
  /\ seenCaches = [r \in Relays |-> {}]
  /\ expired = [r \in Relays |-> {}]
  /\ sent = [k \in {} |-> 0]
  /\ dropped = {}
  /\ receivers = <<>>
  /\ injected = 0
  \* P1: a Peer node with signalling enabled whose dial of R1 has resolved
  \* and whose channel to R1 has opened (index.ts:354-356)
  /\ EstablishedHttp
  /\ IdlePeer
  /\ FreshRelay

\* wire messages the peers of SpecMesh send: P1 a ConnectRequest to P2 or to
\* a peer no relay knows, P2 a ConnectResponse to P1
MeshInputs ==
  [P1 |-> {EncodeConnect("ConnectRequest", "P1", "P2", SignalToJson(OfferSignal)),
           EncodeConnect("ConnectRequest", "P1", "PX", SignalToJson(OfferSignal))},
   P2 |-> {EncodeConnect("ConnectResponse", "P2", "P1", SignalToJson(ReceiverSignal(1, 1)))}]

\* peer p sends `bytes` on its signalling channel (index.ts:521, part_004:106)
PeerSend(p, bytes) ==
  /\ injected < MaxMsgs
  /\ injected' = injected + 1
  /\ inbox' = Deliver(inbox, p, <<meshPeerMap(OtherEnd(CHOOSE e \in EdgeIds : Edges[e].a = p, p))[p]>>, bytes)
  /\ UNCHANGED <<topology, hashingAt, seenCaches, expired, sent, dropped, receivers>>
  /\ UNCHANGED <<relayVars, httpVars, peerVars, extVars>>

InitMesh == MeshOf(DOMAIN Topologies)

NextMesh ==
  \/ \E p \in DOMAIN MeshInputs : \E bytes \in MeshInputs[p] : PeerSend(p, bytes)
  \/ \E r \in Relays, e \in EdgeIds : MeshMessageEvent(r, e)
  \/ \E r \in Relays : MeshHashDone(r)
  \/ \E r \in Relays : \E d \in seenCaches[r] : MeshSeenExpire(r, d)

SpecMesh == InitMesh /\ [][NextMesh]_vars

\* ------------------------------------------------------------- SpecStar
InitStar == MeshOf({"single", "line"})

NextStar ==
  \/ \E ma \in StarAddresses, preAborted \in BOOLEAN : DialUsingSignallingChannel(ma, preAborted)
  \/ ScInitiatorOffer
  \/ \E e \in EdgeIds : DialerMessage(e)
  \/ ScInitiatorReady
  \/ ScInitiatorError
  \/ ScAbort
  \/ \E e \in EdgeIds : ListenerMessage(e)
  \/ \E i \in 1..Len(receivers) : SigReceiverSignal(i)
  \/ \E i \in 1..Len(receivers) : SigReceiverReady(i)
  \/ \E i \in 1..Len(receivers) : SigReceiverError(i)
  \/ \E r \in Relays, e \in EdgeIds : MeshMessageEvent(r, e)
  \/ \E r \in Relays : MeshHashDone(r)

\* the engines emit the events they can emit, channels deliver, digests
\* complete; errors and aborts are not owed
FairStar ==
  /\ WF_vars(ScInitiatorOffer)
  /\ WF_vars(\E e \in EdgeIds : DialerMessage(e))
  /\ WF_vars(ScInitiatorReady)
  /\ WF_vars(\E e \in EdgeIds : ListenerMessage(e))
  /\ WF_vars(\E i \in 1..Len(receivers) : SigReceiverSignal(i))
  /\ WF_vars(\E i \in 1..Len(receivers) : SigReceiverReady(i))
  /\ \A r \in Relays : WF_vars(\E e \in EdgeIds : MeshMessageEvent(r, e))
  /\ \A r \in Relays : WF_vars(MeshHashDone(r))

SpecStar == InitStar /\ [][NextStar]_vars /\ FairStar

\* ------------------------------------------------------------- SpecDial
\* both dial paths of a Peer node with signalling enabled: its dial of a
\* relay, the signalling channels on that connection, and its dials of star
\* addresses at any time; the node has created no listener
InitDial == InitPeer

NextDial ==
  \/ \E ma \in PlainAddresses, preAborted \in BOOLEAN : Dial(ma, preAborted)
  \/ InitiatorOffer
  \/ FetchResponse
  \/ InitiatorReady
  \/ InitiatorClose
  \/ Abort
  \/ \E k \in DSCs : DScOpen(k)
  \/ \E k \in DSCs : DScClosed(k)
  \/ \E k \in DSCs : DScCloseEvent(k)
  \/ \E k \in DSCs : DScHealthTick(k)
  \/ \E k \in DSCs, tcc \in BOOLEAN : DScError(k, tcc)
  \/ LRequest
  \/ LReceiverSignal
  \/ \E ma \in StarAddresses, preAborted \in BOOLEAN : DialUsingSignallingChannel(ma, preAborted)
  \/ ScInitiatorOffer
  \/ ScInitiatorError
  \/ ScAbort

SpecDial == InitDial /\ [][NextDial]_vars

\* ---- claims checked under SpecDial
\* the transport holds a signalling channel to its primary relay whose
\* readyState is open
HoldsOpenChannel == tSignallingChannel # NoSC /\ dsc[tSignallingChannel].state = "open"

\* the caller's signal fires while dial attempt d is pending; d2 is the
\* attempt after the step
AbortDuring(d, d2) == d.state = "pending" /\ ~d.aborted /\ d2.aborted

\* listeners removed, engine closed, promise rejected with Aborted
AbortedAndTornDown(d2) ==
  /\ d2.state = "rejected"
  /\ d2.error = "Aborted"
  /\ ~d2.onError /\ ~d2.onReady /\ ~d2.onAbort
  /\ d2.channel = "closed"

\* a dial is started with a signal that has already aborted
StartedAborted(d, d2) == d.state = "idle" /\ d2.state # "idle" /\ d2.aborted

C11_RelayUnavailableWithoutOpenChannel ==
  [][ /\ (sdial.state = "idle" /\ sdial'.state # "idle" /\ ~HoldsOpenChannel) =>
          /\ sdial'.state = "rejected"
          /\ sdial'.error = "RelayUnavailable"
          /\ sdial'.channel = "absent"
      /\ (sdial.channel = "live" /\ ~sdial.onMessage /\ ~HoldsOpenChannel
            /\ sdial' # sdial /\ ~sdial'.aborted /\ sdial'.error # "EngineError") =>
          /\ sdial'.state = "rejected"
          /\ sdial'.error = "RelayUnavailable"
    ]_vars

\* -------------------------------------------------------------- SpecSig
\* a Peer node that listens through its signalling channel: its dial of the
\* relay has resolved, its first PeerSC is open and registered; channels
\* close, fail and are replaced while ConnectRequests arrive
\* the listener after listen and the registration of channel 1
ListeningOnFirst ==
  [NoListener EXCEPT !.server = "sig", !.signallingChannel = 1, !.multiaddr = TRUE,
                     !.handlers = {1}, !.lastEvent = "listening"]

\* wire messages that reach the listening peer: an offer and a candidate of
\* P2, and a response that is none of its business
SigInputs ==
  {EncodeConnect("ConnectRequest", "P2", OwnPeerId, SignalToJson(OfferSignal)),
   EncodeConnect("ConnectRequest", "P2", OwnPeerId, SignalToJson(ReceiverSignal(1, 2))),
   EncodeConnect("ConnectResponse", "P2", OwnPeerId, SignalToJson(ReceiverSignal(1, 1)))}

\* part_004:124-126 untrackConn of the signalling listener, run by the
\* receiver's close event
untrackChannel(l) ==
  IF l.untrack THEN [l EXCEPT !.channels = 0, !.untrack = FALSE] ELSE l

\* a message event on channel k of the listening peer: handleMessage
\* (part_004:52-62) and processRequest (76-91, 137)
PlMessage(k, bytes) ==
  /\ dsc[k].state = "open"
  /\ k \in pl.handlers
  /\ pl.request = "none"
  /\ ~pl.failed
  /\ LET msg == ParseMessage(bytes)
     IN pl' = IF msg.type # "ConnectRequest"
              THEN pl
              ELSE IF pl.signallingChannel = NoSC
              THEN \* part_004:77 the assertion fails, the request is lost
                   [pl EXCEPT !.failed = TRUE, !.arrivedOn = k]
              ELSE IF JsonToSignal(msg.signal).type # "offer"
              THEN pl
              ELSE [pl EXCEPT !.request = "live", !.channels = 1, !.arrivedOn = k,
                              !.captured = pl.signallingChannel,
                              !.reqSrc = msg.src, !.reqDst = msg.dst]
  /\ UNCHANGED <<httpVars, sdial, srv, extVars>>
  /\ UNCHANGED <<relayVars, meshVars>>

\* part_004:93-111: the receiver emits a local signal; the response is sent
\* on the channel processRequest captured, and a send that throws is logged
PlReceiverSignal ==
  /\ pl.request = "live"
  /\ pl.signals < MaxSignals
  /\ pl' = IF pl.captured # GoneSC /\ dsc[pl.captured].state = "open"
            THEN [pl EXCEPT !.signals = @ + 1, !.answeredOn = pl.captured,
                            !.response = EncodeConnect("ConnectResponse", pl.reqDst, pl.reqSrc,
                                           SignalToJson(ReceiverSignal(1, pl.signals + 1)))]
            ELSE [pl EXCEPT !.signals = @ + 1]
  /\ UNCHANGED <<httpVars, sdial, srv, extVars>>
  /\ UNCHANGED <<relayVars, meshVars>>

\* part_004:112-119: the receiver emits `error` and is closed (its close
\* event runs untrackConn if registered)
PlReceiverError ==
  /\ pl.request = "live"
  /\ pl' = untrackChannel([pl EXCEPT !.request = "closed"])
  /\ UNCHANGED <<httpVars, sdial, srv, extVars>>
  /\ UNCHANGED <<relayVars, meshVars>>

\* part_004:120-135: the receiver emits `ready`; untrackConn is registered
\* and `connection` dispatched
PlReceiverReady ==
  /\ pl.request = "live"
  /\ pl.signals > 0
  /\ ~pl.connectionEmitted
  /\ pl' = [pl EXCEPT !.untrack = TRUE, !.connectionEmitted = TRUE]
  /\ UNCHANGED <<httpVars, sdial, srv, extVars>>
  /\ UNCHANGED <<relayVars, meshVars>>

\* the receiver emits `close` (part_004:124-130)
PlReceiverClose ==
  /\ pl.request = "live"
  /\ pl' = untrackChannel([pl EXCEPT !.request = "closed"])
  /\ UNCHANGED <<httpVars, sdial, srv, extVars>>
  /\ UNCHANGED <<relayVars, meshVars>>

InitSig ==
  /\ EstablishedHttp
  /\ pl = ListeningOnFirst
  /\ sdial = IdleDial
  /\ srv = ListeningServer
  /\ IdleExt
  /\ FreshRelay
  /\ IdleMesh

NextSig ==
  \/ InitiatorClose
  \/ \E k \in DSCs : DScOpen(k)
  \/ \E k \in DSCs : DScClosed(k)
  \/ \E k \in DSCs : DScCloseEvent(k)
  \/ \E k \in DSCs : DScHealthTick(k)
  \/ \E k \in DSCs, tcc \in BOOLEAN : DScError(k, tcc)
  \/ \E k \in DSCs, bytes \in SigInputs : PlMessage(k, bytes)
  \/ PlReceiverSignal
  \/ PlReceiverError

SpecSig == InitSig /\ [][NextSig]_vars

\* ---- claims checked under SpecSig
\* C18 (as stated in the specification): for every ConnectRequest{src, dst}
\* carrying an offer that a signalling listener receives on a signalling
\* channel c, the answer is ConnectResponse{src = request.dst, dst =
\* request.src} and is sent on that same channel c, whatever channel has been
\* registered with the listener in the meantime; no such request is lost.
C18_AnswerOnTheRequestsChannel ==
  /\ ~pl.failed
  /\ pl.answeredOn # NoSC =>
       /\ pl.answeredOn = pl.arrivedOn
       /\ ParseMessage(pl.response).type = "ConnectResponse"
       /\ ParseMessage(pl.response).src = pl.reqDst
       /\ ParseMessage(pl.response).dst = pl.reqSrc

\* ------------------------------------------------------------ SpecCancel
\* one dial of a relay over HTTP that its caller may cancel, the HTTP
\* listener that serves it and the listener's routing tables.  The two
\* engines are the two ends of one connection:
\*  - the receiver becomes ready only if the initiator was fed its answer;
\*  - a signalling channel opens while both ends live;
\*  - the receiver closes after an error, when its emitted connection is
\*    closed, or when the initiator of an established connection has closed;
\*  - the listener's end of a signalling channel closes with either engine.
\* a signalling channel of the listener's receiver emits events only while
\* the receiver lives
ReceiverLives == lsn.receiver = "live" /\ lsn.scHandler

\* some data channel of the connection has opened at its ends
Connected == dial.answerFed

\* the initiator, or the listener's receiver, has closed
EitherEndClosed == dial.channel = "closed" \/ lsn.receiver = "closed"

\* the receiver's close event (part_004:320-327) as the far end causes it
ReceiverSeesClose ==
  /\ dial.channel = "closed"
  /\ Connected
  /\ LReceiverClose

\* the listener's end of channel s closes with the connection
ScSeesClose(s) == EitherEndClosed /\ ScClosed(s)

\* signalling channels the initiator created / the receiver announced
CreatedAtDialer == {k \in DSCs : dsc[k].state # "absent"}
AnnouncedAtListener == {s \in SCs : rsState[s] # "absent"}

InitCancel ==
  /\ cfg \in [enableSignalling : BOOLEAN, nodeType : {"Peer", "Relay"},
              relayPeerId : {"R1"}, listenerSignallingEnabled : {TRUE}]
  /\ dial = IdleDial
  /\ http = IdleRequest
  /\ tSignallingChannel = NoSC
  /\ dsc = [k \in DSCs |-> IdleDsc]
  /\ lsn = IdleLsn
  /\ IdlePeer
  /\ FreshRelay
  /\ IdleMesh

NextCancel ==
  \/ \E ma \in PlainAddresses : Dial(ma, FALSE)
  \/ InitiatorOffer
  \/ FetchResponse
  \/ InitiatorReady
  \/ Abort
  \/ \E k \in DSCs : Connected /\ dial.channel = "live" /\ DScOpen(k)
  \/ LRequest
  \/ LReceiverSignal
  \/ ReceiverSeesClose
  \/ lsn.connectionEmitted /\ LReceiverClose
  \/ LReceiverError
  \/ Connected /\ LReceiverReady
  \/ \E k \in DSCs : Connected /\ dial.channel = "live" /\ LScOpen(k)
  \/ /\ ReceiverLives
     /\ Cardinality(AnnouncedAtListener) < Cardinality(CreatedAtDialer)
     /\ InboundSignallingChannel(lsn.scType)
  \/ \E s \in SCs : ReceiverLives /\ Connected /\ dial.channel = "live" /\ ScOpen(s)
  \/ \E s \in SCs, k \in DSCs :
       dsc[k].joinSent # <<>> /\ JoinRequestEvent(s, ParseMessage(dsc[k].joinSent).peerId)
  \/ \E s \in SCs : ScSeesClose(s)
  \/ \E s \in SCs : ScCloseEvent(s)
  \/ \E s \in SCs, cl \in Closures : HealthTick(s, cl)

\* an accepted request is handled and its receiver answers; the far end of an established connection
\* sees it close; a closed channel is swept by its interval (helpers.ts:7-17)
\* even if its close event never comes
FairCancel ==
  /\ WF_vars(LRequest)
  /\ WF_vars(LReceiverSignal)
  /\ WF_vars(ReceiverSeesClose)
  /\ \A s \in SCs : WF_vars(ScSeesClose(s))
  /\ \A s \in SCs, cl \in Closures : WF_vars(HealthTick(s, cl))

SpecCancel == InitCancel /\ [][NextCancel]_vars /\ FairCancel

\* ---- claims checked under SpecCancel
\* the caller cancelled the dial before the initiator emitted `ready`
CancelledBeforeReady == dial.aborted /\ ~dial.readyEmitted

\* no connection of the attempt is held by the dialer or tracked by the
\* listener, the routing tables are empty, and the response to the offer, if
\* the listener received it, has been ended
NothingLeft ==
  /\ dial.state # "resolved"
  /\ lsn.connections = 0
  /\ \A p \in PIDs : peerSignallingChannelMap[p] = NoSC
  /\ relaySignallingChannels = <<>>
  /\ lsn.receiver # "absent" => lsn.resEnded

\* C13: after a dial is cancelled before the engine emitted `ready`, the
\* system comes to hold, and from then on holds, no open connection for that
\* attempt, no routing-table entry created by it and no un-ended HTTP response
\* on the listener that received its offer; the dial never resolves.
C13_CancelLeavesNothing ==
  /\ [](CancelledBeforeReady => dial.state # "resolved")
  /\ CancelledBeforeReady ~> []NothingLeft

\* the dial was cancelled after the listener had tracked its connection and
\* a routing entry, and all of it is gone
C13_Witness ==
  /\ CancelledBeforeReady
  /\ lsn.connectionEmitted
  /\ lsn.receiver = "closed"
  /\ \E s \in SCs : rsState[s] = "closed" /\ errorListeners[s] # {}
  /\ NothingLeft

\* ------------------------------------------------------------ SpecTrack
\* the two listeners and the connections they track: the HTTP listener that
\* serves the dial of a relay, and the dialling peer's own listener, reached
\* through the signalling channel that dial opens
\* the listener after createListener and listen (index.ts:551-560,
\* part_007:41-73)
Listening == [NoListener EXCEPT !.server = "sig"]

InitTrack ==
  /\ cfg \in [enableSignalling : {TRUE}, nodeType : {"Peer"}, relayPeerId : {"R1"},
              listenerSignallingEnabled : BOOLEAN]
  /\ dial = IdleDial
  /\ http = IdleRequest
  /\ tSignallingChannel = NoSC
  /\ dsc = [k \in DSCs |-> IdleDsc]
  /\ lsn = IdleLsn
  /\ pl = Listening
  /\ sdial = IdleDial
  /\ srv = ListeningServer
  /\ IdleExt
  /\ FreshRelay
  /\ IdleMesh

NextTrack ==
  \/ \E ma \in PlainAddresses : Dial(ma, FALSE)
  \/ InitiatorOffer
  \/ FetchResponse
  \/ InitiatorReady
  \/ LRequest
  \/ LReceiverSignal
  \/ LReceiverError
  \/ LReceiverReady
  \/ LReceiverClose
  \/ \E k \in DSCs : LScOpen(k)
  \/ \E k \in DSCs : DScOpen(k)
  \/ \E k \in DSCs, bytes \in SigInputs : PlMessage(k, bytes)
  \/ PlReceiverSignal
  \/ PlReceiverReady
  \/ PlReceiverClose

SpecTrack == InitTrack /\ [][NextTrack]_vars

\* ---- claims checked under SpecTrack
\* C20: every inbound connection a listener has emitted is removed from that
\* listener's lists when its channel closes (HTTP listener: connections and
\* channels; signalling listener: channels), whatever the order of the
\* engine's `ready`, the signalling channel's `open` and the channel's
\* `close`.
C20_EmittedConnectionsAreUntracked ==
  /\ (lsn.connectionEmitted /\ lsn.receiver = "closed")
       => (lsn.connections = 0 /\ lsn.channels = 0)
  /\ (pl.connectionEmitted /\ pl.request = "closed") => pl.channels = 0

\* both listeners emitted a connection, the HTTP listener's after waiting for
\* the signalling channel, and both connections have closed
C20_Witness ==
  /\ lsn.connectionEmitted /\ lsn.receiver = "closed" /\ lsn.scOpened
  /\ pl.connectionEmitted /\ pl.request = "closed"

\* ------------------------------------------------------------ SpecClose
\* close() of an HTTP listener (part_007:93-99, part_004:484-504) while a
\* request is served and signalling channels open, join and close
\* part_004:496-502: http.Server.close calls back once no connection is
\* open; a connection is open while its request awaits the response
ServerIdle == http.state # "inflight"

\* part_004:496-502, part_007:95-98: close() resolves and the listener
\* dispatches `close`
Resolved == [phase |-> "resolved", closeEmitted |-> TRUE]

\* part_004:485-487: close() closes every receiver of this.channels and
\* awaits them; with an empty list the await resumes at once (489-496)
CloseStart ==
  /\ srv.phase = "listening"
  /\ lsn' = IF lsn.channels > 0 /\ lsn.receiver = "live"
            THEN untrackConn([lsn EXCEPT !.receiver = "closed"])
            ELSE lsn
  /\ IF lsn.channels > 0
     THEN /\ srv' = [srv EXCEPT !.phase = "closingChannels"]
          /\ UNCHANGED relayVars
     ELSE /\ srv' = IF ServerIdle THEN Resolved
                     ELSE [srv EXCEPT !.phase = "closingServer"]
          /\ peerSignallingChannelMap' = [p \in PIDs |-> NoSC]
          /\ relaySignallingChannels' = <<>>
          /\ lastForward' = NoForward
          /\ UNCHANGED <<rsState, rsKind, rsCloseFired, seenCache, messageHandler,
                         closeListeners, errorListeners, closingIntervals, hashing,
                         lastJoin, msgCount>>
  /\ UNCHANGED <<cfg, dial, http, tSignallingChannel, dsc, pl, sdial, extVars>>
  /\ UNCHANGED meshVars

\* part_004:489-496: the receivers have closed; the tables are cleared and
\* http.Server.close is called
CloseChannelsDone ==
  /\ srv.phase = "closingChannels"
  /\ srv' = IF ServerIdle THEN Resolved
            ELSE [srv EXCEPT !.phase = "closingServer"]
  /\ peerSignallingChannelMap' = [p \in PIDs |-> NoSC]
  /\ relaySignallingChannels' = <<>>
  /\ lastForward' = NoForward
  /\ UNCHANGED <<rsState, rsKind, rsCloseFired, seenCache, messageHandler,
                 closeListeners, errorListeners, closingIntervals, hashing,
                 lastJoin, msgCount>>
  /\ UNCHANGED <<httpVars, pl, sdial, extVars>>
  /\ UNCHANGED meshVars

\* part_004:496-502, part_007:95-98: the last connection has ended, the
\* HTTP server reports closed
ServerClosed ==
  /\ srv.phase = "closingServer"
  /\ ServerIdle
  /\ srv' = Resolved
  /\ UNCHANGED <<httpVars, pl, sdial, extVars>>
  /\ UNCHANGED <<relayVars, meshVars>>

InitClose ==
  /\ cfg \in [enableSignalling : {TRUE}, nodeType : {"Peer", "Relay"},
              relayPeerId : {"R1"}, listenerSignallingEnabled : {TRUE}]
  /\ dial = IdleDial
  /\ http = IdleRequest
  /\ tSignallingChannel = NoSC
  /\ dsc = [k \in DSCs |-> IdleDsc]
  /\ lsn = IdleLsn
  /\ IdlePeer
  /\ FreshRelay
  /\ IdleMesh

NextClose ==
  \/ \E ma \in PlainAddresses : Dial(ma, FALSE)
  \/ InitiatorOffer
  \/ FetchResponse
  \/ srv.phase # "resolved" /\ LRequest
  \/ LReceiverSignal
  \/ LReceiverError
  \/ LReceiverReady
  \/ LReceiverClose
  \/ ReceiverLives /\ InboundSignallingChannel(lsn.scType)
  \/ \E s \in SCs : ReceiverLives /\ ScOpen(s)
  \/ \E s \in SCs : ReceiverLives /\ JoinRequestEvent(s, OwnPeerId)
  \/ \E s \in SCs : ScClosed(s)
  \/ \E s \in SCs : ScCloseEvent(s)
  \/ CloseStart
  \/ CloseChannelsDone
  \/ ServerClosed

SpecClose == InitClose /\ [][NextClose]_vars

\* ---- claims checked under SpecClose
\* close() resolves in this step
CloseResolves == srv.phase # "resolved" /\ srv'.phase = "resolved"

\* C19 (as stated in the specification): when close() of an HTTP listener
\* resolves, every receiver it tracked has been closed, peerTable is empty,
\* relayList is empty and the HTTP server has reported closed; the listener's
\* `close` event is emitted only then.
C19_CloseLeavesNothing ==
  /\ [][CloseResolves =>
          /\ lsn'.channels > 0 => lsn'.receiver = "closed"
          /\ \A p \in PIDs : peerSignallingChannelMap'[p] = NoSC
          /\ relaySignallingChannels' = <<>>
      ]_vars
  /\ [](srv.closeEmitted => srv.phase = "resolved")

\* ---- claims checked under SpecMesh
\* C4: while a message's digest has not expired from a relay's seen-cache,
\* that relay invokes `send` for the message at most once on each of its
\* signalling channels, whatever the mesh (cycles, several routes).
C4_OneSendPerChannelWhileSeen ==
  \A k \in DOMAIN sent : sent[k] <= 1 \/ Digest(k[3]) \in expired[k[1]]

\* in a mesh with a cycle or a double route, a relay has forwarded a message
\* once and ignored a later copy of it, its digest never having expired
C4_Witness ==
  /\ topology \in {"double", "triangle"}
  /\ \E k \in DOMAIN sent :
       /\ sent[k] = 1
       /\ <<k[1], k[3]>> \in dropped
       /\ Digest(k[3]) \notin expired[k[1]]

\* ---- claims checked under SpecStar
StarRequest == EncodeConnect("ConnectRequest", "P1", "P2", SignalToJson(OfferSignal))
StarAnswer == EncodeConnect("ConnectResponse", "P2", "P1", SignalToJson(ReceiverSignal(1, 1)))

\* an engine error, an abort or a closed receiver
StarDisturbed ==
  \/ sdial.aborted
  \/ sdial.error = "EngineError"
  \/ \E i \in 1..Len(receivers) : receivers[i].state = "closed"

StarDialTo(name) ==
  /\ topology = name
  /\ sdial.state = "pending"
  /\ getPeerId(sdial.ma) = "P2"

\* C6: P1 and P2 joined at the same relay, engines and channels fair and
\* undisturbed: P1's dial of P2's star address leads to the relay having
\* forwarded the ConnectRequest to P2 and P2's ConnectResponse to P1, the dial
\* resolved and P2's listener having emitted `connection`.
C6_DialThroughRelaySucceeds ==
  StarDialTo("single") ~>
    \/ StarDisturbed
    \/ /\ sdial.state = "resolved"
       /\ \E i \in 1..Len(receivers) : receivers[i].readyEmitted
       /\ SentCount("R1", 2, StarRequest) = 1
       /\ SentCount("R1", 1, StarAnswer) = 1

\* the dial through the one relay has resolved and P2 has its connection
C6_Witness ==
  /\ topology = "single"
  /\ ~StarDisturbed
  /\ sdial.state = "resolved"
  /\ Len(receivers) = 1
  /\ receivers[1].readyEmitted

\* the channels of the line: P1-R1 is 1, R1-R2 is 2, P2-R2 is 3
C7_SendsOnLine ==
  \A k \in DOMAIN sent :
    /\ sent[k] = 1
    /\ ParseMessage(k[3]).type = "ConnectRequest" => <<k[1], k[2]>> \in {<<"R1", 2>>, <<"R2", 3>>}
    /\ ParseMessage(k[3]).type = "ConnectResponse" => <<k[1], k[2]>> \in {<<"R2", 2>>, <<"R1", 1>>}

\* C7: R1 and R2 joined by one relay channel, P1 at R1, P2 at R2: the
\* ConnectRequest from P1 to P2 is sent exactly twice in total (by R1 on the
\* relay channel, by R2 on P2's channel), the ConnectResponse is sent on the
\* reverse path only (R2 on the relay channel, R1 on P1's channel), and it
\* reaches P1.
C7_TwoSendsAndReversePath ==
  /\ []((topology = "line" /\ getPeerId(sdial.ma) = "P2") => C7_SendsOnLine)
  /\ StarDialTo("line") ~>
       \/ StarDisturbed
       \/ /\ SentCount("R1", 2, StarRequest) = 1
          /\ SentCount("R2", 3, StarRequest) = 1
          /\ SentCount("R2", 2, StarAnswer) = 1
          /\ SentCount("R1", 1, StarAnswer) = 1
          /\ sdial.requestSent /\ ~sdial.onMessage
          /\ sdial.answerFed

\* on the line, the request has been sent twice and the answer has come back
C7_Witness ==
  /\ topology = "line"
  /\ SentCount("R1", 2, StarRequest) = 1
  /\ SentCount("R2", 3, StarRequest) = 1
  /\ SentCount("R2", 2, StarAnswer) = 1
  /\ SentCount("R1", 1, StarAnswer) = 1
  /\ sdial.answerFed

\* C8 (as stated in the specification): for every offer a listener accepts,
\* at most one answer is sent back, however many local signals its receiver
\* emits: one HTTP response body, or one ConnectResponse.
C8_AtMostOneAnswerPerOffer ==
  /\ lsn.bodies <= 1
  /\ \A i \in 1..Len(receivers) : receivers[i].responses <= 1

\* -------------------------------------------------------------- SpecReq
\* an HTTP listener (part_004:151-505) serves requests of any shape, one
\* after the other; a receiver that was fed an offer answers later
\* a query parameter: url.searchParams.get returns null if it is absent
Absent == [present |-> FALSE, value |-> <<>>]
Param(v) == [present |-> TRUE, value |-> v]

\* base58btc.decode throws unless the string carries the multibase prefix
base58Decodes(str) == str # <<>> /\ Head(str) = "z"
\* JSON.parse throws on text that is no JSON
jsonParses(bytes) == Len(bytes) = 2

\* the `signal` parameters a client may send: none, text that is not
\* base58btc, base58btc of text that is not JSON, of a JSON object that is no
\* signal, of a candidate, of an offer
SignalParams ==
  {Absent,
   Param(<<"q", "offer", <<0, 0>>>>),
   Param(Base58Encode(<<"garbage">>)),
   Param(Base58Encode(<<"undefined", <<>>>>)),
   Param(Base58Encode(SignalToJson(ReceiverSignal(1, 2)))),
   Param(Base58Encode(SignalToJson(OfferSignal)))}

\* the `signalling_channel` parameters a client may send
ChannelParams == {Absent, Param(<<"none">>), Param(<<"peer">>), Param(<<"relay">>), Param(<<"bogus">>)}

Requests == [signal : SignalParams, signalling_channel : ChannelParams]

\* what a request has come to: the status written (0: none), whether the
\* response was ended, whether a receiver is in this.channels for it, whether
\* the receiver was handed the offer, whether processRequest threw
Outcome(status, ended, receiver, handled, threw) ==
  [status |-> status, ended |-> ended, receiver |-> receiver, handled |-> handled,
   threw |-> threw]

\* part_004:241-358 processRequest, up to its return or throw; the caller
\* (179-183) logs what it throws
processRequest(signallingEnabled, req) ==
  IF ~req.signal.present
  THEN \* 258-264
       Outcome(500, TRUE, FALSE, FALSE, FALSE)
  ELSE IF ~base58Decodes(req.signal.value)
          \/ ~jsonParses(Base58Decode(req.signal.value))
  THEN \* 270-271 throw before anything is written
       Outcome(0, FALSE, FALSE, FALSE, TRUE)
  ELSE IF JsonToSignal(Base58Decode(req.signal.value)).type # "offer"
  THEN \* 273-277
       Outcome(200, TRUE, FALSE, FALSE, FALSE)
  ELSE LET type == IF req.signalling_channel.present
                   THEN req.signalling_channel.value ELSE <<"none">>
       IN IF signallingEnabled /\ type \notin {<<"none">>, <<"peer">>, <<"relay">>}
          THEN \* 282-286, 349-350: the receiver is tracked, then the throw
               Outcome(0, FALSE, TRUE, FALSE, TRUE)
          ELSE \* 357: the receiver is handed the offer
               Outcome(0, FALSE, TRUE, TRUE, FALSE)

\* the bound on the requests of one behaviour
MaxReqs == 2

\* part_004:179-183: a `request` event
ProcessRequest(req) ==
  /\ Len(hreq) < MaxReqs
  /\ hreq' = Append(hreq, [req |-> req,
                           out |-> processRequest(cfg.listenerSignallingEnabled, req)])
  /\ UNCHANGED <<relayVars, httpVars, meshVars, peerVars, flt, cd, ln>>

\* part_004:291-297: the receiver of request i emits its answer
ReceiverAnswers(i) ==
  /\ i \in 1..Len(hreq)
  /\ hreq[i].out.handled
  /\ ~hreq[i].out.ended
  /\ hreq' = [hreq EXCEPT ![i].out.status = 200, ![i].out.ended = TRUE]
  /\ UNCHANGED <<relayVars, httpVars, meshVars, peerVars, flt, cd, ln>>

InitReq ==
  /\ cfg \in [enableSignalling : {FALSE}, nodeType : {"Peer"}, relayPeerId : {"R1"},
              listenerSignallingEnabled : BOOLEAN]
  /\ dial = IdleDial
  /\ http = IdleRequest
  /\ tSignallingChannel = NoSC
  /\ dsc = [k \in DSCs |-> IdleDsc]
  /\ lsn = IdleLsn
  /\ IdlePeer
  /\ FreshRelay
  /\ IdleMesh

NextReq ==
  \/ \E req \in Requests : ProcessRequest(req)
  \/ \E i \in 1..Len(hreq) : ReceiverAnswers(i)

SpecReq == InitReq /\ [][NextReq]_vars

\* ---- claims checked under SpecReq
\* a request the listener cannot serve: no signal, a signal that decodes to
\* no signal envelope, or an unknown signalling_channel value
Malformed(req) ==
  \/ ~req.signal.present
  \/ ~base58Decodes(req.signal.value)
  \/ ~jsonParses(Base58Decode(req.signal.value))
  \/ JsonToSignal(Base58Decode(req.signal.value)).type \notin {"offer", "answer", "candidate"}
  \/ /\ req.signalling_channel.present
     /\ req.signalling_channel.value \notin {<<"none">>, <<"peer">>, <<"relay">>}

\* C21 (as stated in the specification): every malformed HTTP request is
\* answered with status 500 and its response is ended, leaves no receiver
\* tracked for it, and does not stop the listener from serving later requests.
C21_MalformedRequestsGet500 ==
  \A i \in 1..Len(hreq) :
    Malformed(hreq[i].req) =>
      /\ hreq[i].out.status = 500
      /\ hreq[i].out.ended
      /\ ~hreq[i].out.receiver
      /\ \A j \in (i + 1)..Len(hreq) :
           ~Malformed(hreq[j].req) => hreq[j].out.handled \/ hreq[j].out.ended

\* ----------------------------------------------------------- SpecFilter
\* filter (index.ts:565-600) applied to lists of multiaddrs.  A multiaddr is
\* the sequence of its components: "base" stands for /ip4/../tcp/../http,
\* "direct" for /p2p-webrtc-direct, "star" for /p2p-webrtc-star, "circuit"
\* for /p2p-circuit, "ws" for /ws, "p2p/X" for /p2p/X
PidComponents == {"p2p/R1", "p2p/P1", "p2p/P2"}
PidOf(c) == CASE c = "p2p/R1" -> "R1" [] c = "p2p/P1" -> "P1" [] c = "p2p/P2" -> "P2"
                 [] OTHER -> "null"

\* the last index of ma holding a /p2p component, 0 if there is none
LastPid(ma) ==
  LET is == {i \in 1..Len(ma) : ma[i] \in PidComponents}
  IN IF is = {} THEN 0 ELSE CHOOSE i \in is : \A j \in is : j <= i

\* Multiaddr.decapsulateCode(CODE_P2P): the address up to, not including, its
\* last /p2p component; the address itself if it has none
decapsulateCode(ma) ==
  IF LastPid(ma) = 0 THEN ma ELSE SubSeq(ma, 1, LastPid(ma) - 1)

\* Multiaddr.getPeerId: the id of the last /p2p component, null if none
maPeerId(ma) == IF LastPid(ma) = 0 THEN "null" ELSE PidOf(ma[LastPid(ma)])

\* mafmt.WebRTCDirect.matches: http, p2p-webrtc-direct, and at most one /p2p
matches(ma) ==
  \/ ma = <<"base", "direct">>
  \/ Len(ma) = 3 /\ SubSeq(ma, 1, 2) = <<"base", "direct">> /\ ma[3] \in PidComponents

\* the predicate filter applies to each address (index.ts:569-599)
filterAccepts(enableSignalling, relayPeerId, ma) ==
  IF "circuit" \in Range(ma) THEN FALSE
  ELSE IF "star" \in Range(ma)
  THEN IF ~enableSignalling THEN FALSE
       ELSE IF matches(decapsulateCode(ma))
       THEN maPeerId(ma) = relayPeerId
       ELSE matches(decapsulateCode(decapsulateCode(ma)))
  ELSE matches(decapsulateCode(ma))

\* Array.prototype.filter
RECURSIVE filter(_, _, _)
filter(enableSignalling, relayPeerId, mas) ==
  IF mas = <<>> THEN <<>>
  ELSE (IF filterAccepts(enableSignalling, relayPeerId, Head(mas)) THEN <<Head(mas)>> ELSE <<>>)
       \o filter(enableSignalling, relayPeerId, Tail(mas))

\* the addresses of test/filter.spec.ts:30-78 and variations of them
AddrPool ==
  {<<"base", "direct">>,
   <<"base", "ws">>,
   <<"base", "ws", "direct", "p2p/P1">>,
   <<"base", "p2p/P1">>,
   <<"base", "p2p/P1", "circuit", "p2p/P2">>,
   <<"base", "direct", "p2p/R1">>,
   <<"base", "direct", "p2p/R1", "circuit", "p2p/P2">>,
   <<"base", "direct", "p2p/R1", "star">>,
   <<"base", "direct", "p2p/P1", "star">>,
   <<"base", "direct", "star">>,
   <<"base", "direct", "p2p/R1", "star", "p2p/P1">>,
   <<"base", "direct", "p2p/P2", "star", "p2p/P1">>,
   <<"base", "p2p/R1", "star", "p2p/P1">>,
   <<"base", "direct", "p2p/R1", "ws">>,
   <<"base", "direct", "p2p/R1", "star", "ws">>}

\* the longest list passed to filter
MaxAddrs == 2

AddrLists == UNION {[1..n -> AddrPool] : n \in 0..MaxAddrs}

\* index.ts:565-600: a call of filter
Filter(mas) ==
  /\ ~flt.called
  /\ flt' = [flt EXCEPT !.input = mas, !.called = TRUE,
                        !.output = filter(cfg.enableSignalling, cfg.relayPeerId, mas)]
  /\ UNCHANGED <<relayVars, httpVars, meshVars, peerVars, hreq, cd, ln>>

InitFilter ==
  /\ cfg \in [enableSignalling : BOOLEAN, nodeType : {"Peer"}, relayPeerId : {"R1"},
              listenerSignallingEnabled : {FALSE}]
  /\ dial = IdleDial
  /\ http = IdleRequest
  /\ tSignallingChannel = NoSC
  /\ dsc = [k \in DSCs |-> IdleDsc]
  /\ lsn = IdleLsn
  /\ IdlePeer
  /\ FreshRelay
  /\ IdleMesh

NextFilter == \E mas \in AddrLists : Filter(mas)

SpecFilter == InitFilter /\ [][NextFilter]_vars

\* ---- claims checked under SpecFilter
\* the address without its trailing /p2p components
RECURSIVE StripTrailingPids(_)
StripTrailingPids(ma) ==
  IF ma # <<>> /\ ma[Len(ma)] \in PidComponents
  THEN StripTrailingPids(SubSeq(ma, 1, Len(ma) - 1))
  ELSE ma

\* the addresses the specification lets through: no circuit component; the
\* direct stack once trailing PIDs are stripped, which for a star address is
\* the direct stack, the relay's PID and the star marker; a star address
\* needs signalling, and the primary relay's PID if the marker comes last
Valid(enableSignalling, relayPeerId, ma) ==
  LET core == StripTrailingPids(ma) IN
  /\ "circuit" \notin Range(ma)
  /\ IF "star" \in Range(ma)
     THEN /\ enableSignalling
          /\ Len(core) = 4
          /\ SubSeq(core, 1, 2) = <<"base", "direct">>
          /\ core[3] \in PidComponents
          /\ core[4] = "star"
          /\ ma[Len(ma)] = "star" => PidOf(core[3]) = relayPeerId
     ELSE core = <<"base", "direct">>

RECURSIVE SelectValid(_, _, _)
SelectValid(enableSignalling, relayPeerId, mas) ==
  IF mas = <<>> THEN <<>>
  ELSE (IF Valid(enableSignalling, relayPeerId, Head(mas)) THEN <<Head(mas)>> ELSE <<>>)
       \o SelectValid(enableSignalling, relayPeerId, Tail(mas))

\* C22 (as stated in the specification): filter(addrs) returns, in input
\* order, exactly the input addresses that contain no circuit component, match
\* the direct family once trailing PIDs are stripped and, if they carry the
\* star marker, come with signalling enabled and, for a listen address, with
\* the primary relay's PID.
C22_FilterReturnsTheValidAddresses ==
  flt.called => flt.output = SelectValid(cfg.enableSignalling, cfg.relayPeerId, flt.input)

\* ---- further claims checked under SpecRelay
\* C24 (as stated in the specification): for each signalling channel watched
\* by the health monitor the cleanup callback runs exactly once, at the first
\* tick that finds the channel closed or through the close event, never
\* through both: when the close event runs the cleanup of a watched channel,
\* the monitor is still scheduled, that is, no tick has run that cleanup.
C24_CleanupRunsOnce ==
  [][\A s \in SCs, cl \in Closures :
       (/\ rsState[s] = "closed"
        /\ ~rsCloseFired[s]
        /\ rsCloseFired'[s]
        /\ cl \in closeListeners[s])
       => <<s, cl>> \in closingIntervals]_vars

\* a tick of the monitor of channel s for PID p runs in this step
TickOf(s, p) ==
  /\ <<s, PeerClosure(p)>> \in closingIntervals
  /\ <<s, PeerClosure(p)>> \notin closingIntervals'
  /\ rsCloseFired' = rsCloseFired

\* channel s, on which p joined, is closed, its close event has not fired and
\* its monitor has run
Swept(s, p) ==
  /\ rsState[s] = "closed"
  /\ ~rsCloseFired[s]
  /\ PeerClosure(p) \in closeListeners[s]
  /\ <<s, PeerClosure(p)>> \notin closingIntervals

\* C25: if a signalling channel tracked in peerTable reaches state closed
\* without a close event, the monitor's tick removes its PID from peerTable;
\* from then on the dead channel is not the table's entry for that PID, and a
\* message addressed to the PID, while it has no entry, is flooded to
\* relayList (every relay channel but the one it came from).
C25_SweptChannelIsNotRoutedTo ==
  /\ [][\A s \in SCs, p \in PIDs :
          TickOf(s, p) /\ peerSignallingChannelMap[p] = s
            => peerSignallingChannelMap'[p] = NoSC]_vars
  /\ [](\A s \in SCs, p \in PIDs :
          Swept(s, p) =>
            /\ peerSignallingChannelMap[p] # s
            /\ (lastForward.kind = "forward" /\ lastForward.dst = p) =>
                 /\ SeqCount(lastForward.sends, s) = 0
                 /\ peerSignallingChannelMap[p] = NoSC =>
                      lastForward.sends =
                        SelectSeq(relaySignallingChannels, LAMBDA c : c # lastForward.from))

\* a message for the PID of a swept channel was flooded to a relay channel
C25_Witness ==
  \E s \in SCs, p \in PIDs :
    /\ Swept(s, p)
    /\ lastForward.kind = "forward"
    /\ lastForward.dst = p
    /\ Len(lastForward.sends) > 0
    /\ s \notin Range(lastForward.sends)

\* C26: in every reachable state no signalling channel is referenced by both
\* peerTable and relayList, whether it came with an inbound peer or relay
\* request, was entered by a JoinRequest, or was registered by the dial engine.
C26_TablesAreDisjoint ==
  \A s \in SCs : ~(s \in Range(peerSignallingChannelMap) /\ s \in Range(relaySignallingChannels))

\* both tables hold channels, one of them registered by the dial engine
C26_Witness ==
  /\ \E p \in PIDs : peerSignallingChannelMap[p] # NoSC
  /\ \E s \in Range(relaySignallingChannels) : rsKind[s] = "dialed"

\* a JoinRequest is handled in this step (a message is counted and none is
\* suspended at the digest)
JoinStep == msgCount' = msgCount + 1 /\ hashing' = hashing

\* C27: a JoinRequest received on a RelaySC (an inbound relay-type channel or
\* a channel registered by the dial engine) is dropped: a step that handles a
\* JoinRequest enters no such channel into peerTable and leaves relayList and
\* the seen-cache unchanged, and nothing is forwarded.
C27_JoinOnRelayChannelDropped ==
  [][JoinStep =>
       /\ \A p \in PIDs :
            peerSignallingChannelMap'[p] # peerSignallingChannelMap[p]
              => rsKind[peerSignallingChannelMap'[p]] = "peer"
       /\ relaySignallingChannels' = relaySignallingChannels
       /\ seenCache' = seenCache
       /\ lastForward'.kind = "none"]_vars

\* JoinRequests were handled on a node all of whose channels are RelaySCs, and
\* they left no trace
C27_Witness ==
  /\ msgCount = MaxMsgs
  /\ hashing = <<>>
  /\ seenCache = {}
  /\ \A s \in SCs : rsKind[s] \in {"relay", "dialed"} /\ rsState[s] = "open"
  /\ \E s \in SCs : rsKind[s] = "relay"
  /\ \E s \in SCs : rsKind[s] = "dialed"
  /\ \A p \in PIDs : peerSignallingChannelMap[p] = NoSC

\* the suspended call at position i of `hashing` resumes in this step
Resumes(i) == i \in 1..Len(hashing) /\ hashing' = RemoveAt(hashing, i)

\* C30: a resumed _isMsgSeen returns false and stores the digest iff the
\* digest is absent, and returns true leaving the cache unchanged otherwise;
\* of the calls suspended on identical bytes the one that returns false leaves
\* the digest in the cache for all the others, and only the expiry removes a
\* digest, so without an expiry exactly one of them forwards the message.
C30_OneObserverForwards ==
  [][/\ \A i \in 1..MaxMsgs :
          Resumes(i) =>
            LET bytes == hashing[i][2] IN
            IF Digest(bytes) \in seenCache
            THEN lastForward'.kind = "seen" /\ seenCache' = seenCache
            ELSE /\ lastForward'.kind = "forward"
                 /\ lastForward'.bytes = bytes
                 /\ seenCache' = seenCache \cup {Digest(bytes)}
                 /\ \A j \in 1..Len(hashing') :
                      hashing'[j][2] = bytes => isMsgSeen(seenCache', hashing'[j][2])
     /\ \A d \in seenCache : d \notin seenCache' => hashing' = hashing /\ lastForward'.kind = "none"
    ]_vars

\* two calls were suspended on identical bytes arriving on different channels;
\* one has just returned false and forwarded, the other is still suspended
C30_Witness ==
  /\ lastForward.kind = "forward"
  /\ Len(hashing) = 1
  /\ hashing[1][2] = lastForward.bytes
  /\ hashing[1][1] # lastForward.from
  /\ seenCache = {Digest(lastForward.bytes)}

\* ------------------------------------------------------------- SpecAwait
\* One peer dials the targets of Targets at the same time over the one
\* signalling channel it holds to its relay (index.ts:478-534). Each dial's
\* onSignal installs its own onMessage on that channel, sends its
\* ConnectRequest and awaits; every message event on the channel runs all the
\* installed handlers.
MaxEvents == 3

\* bytes that JSON.parse rejects, as wire message and as signal
Garbage == <<"{">>
parses(bytes) == bytes # Garbage

\* what the relay may deliver on the channel
AwaitInputs ==
  {EncodeConnect("ConnectResponse", "P2", OwnPeerId, SignalToJson(ReceiverSignal(2, 1))),
   EncodeConnect("ConnectResponse", "P2", OwnPeerId, SignalToJson(ReceiverSignal(2, 2))),
   EncodeConnect("ConnectResponse", "P3", OwnPeerId, SignalToJson(ReceiverSignal(3, 1))),
   EncodeConnect("ConnectResponse", "P3", OwnPeerId, Garbage),
   EncodeConnect("ConnectResponse", "P2", "PX", SignalToJson(ReceiverSignal(2, 1))),
   EncodeConnect("ConnectResponse", OwnPeerId, "P2", SignalToJson(ReceiverSignal(1, 1))),
   EncodeConnect("ConnectRequest", "P2", OwnPeerId, SignalToJson(OfferSignal)),
   Garbage}

\* mutant: the handler stays on the channel after the awaited response
onMessage_StaysInstalled(t, d, bytes) ==
  IF ~d.onMessage THEN d
  ELSE IF ~parses(bytes)
  THEN [d EXCEPT !.awaiting = FALSE, !.rejected = @ \/ d.awaiting]
  ELSE IF isResponseFor(ParseMessage(bytes), t, OwnPeerId)
  THEN IF ~d.awaiting THEN d
       ELSE IF parses(ParseMessage(bytes).signal)
       THEN [d EXCEPT !.awaiting = FALSE, !.fed = Append(@, bytes)]
       ELSE [d EXCEPT !.awaiting = FALSE, !.rejected = TRUE]
  ELSE d

\* index.ts:499-518, 528-533: onMessage of the dial of target t handling one
\* message event, and the continuation of onSignal it releases. A parse error
\* rejects the awaited promise (the handler stays); the awaited response
\* removes the handler and resolves, after which its signal is parsed and
\* handed to the engine, a parse error there rejecting the dial.
onMessage(t, d, bytes) ==
  IF ~d.onMessage THEN d
  ELSE IF ~parses(bytes)
  THEN [d EXCEPT !.awaiting = FALSE, !.rejected = @ \/ d.awaiting]
  ELSE IF isResponseFor(ParseMessage(bytes), t, OwnPeerId)
  THEN LET d1 == [d EXCEPT !.onMessage = FALSE]
       IN IF ~d.awaiting THEN d1
          ELSE IF parses(ParseMessage(bytes).signal)
          THEN [d1 EXCEPT !.awaiting = FALSE, !.fed = Append(@, bytes)]
          ELSE [d1 EXCEPT !.awaiting = FALSE, !.rejected = TRUE]
  ELSE d

\* index.ts:478-526: the engine of the dial of t emits its offer; onSignal
\* installs onMessage, then sends the ConnectRequest (a send on a channel
\* that is not open throws, which is logged)
OnSignalOffer(t) ==
  /\ ~cd.dials[t].started
  /\ cd' = [cd EXCEPT
              !.dials[t] = [@ EXCEPT !.started = TRUE, !.awaiting = TRUE, !.onMessage = TRUE,
                                     !.since = Len(cd.events),
                                     !.requestSent = cd.readyState = "open"],
              !.sent = IF cd.readyState = "open"
                       THEN Append(@, EncodeConnect("ConnectRequest", OwnPeerId, t,
                                                    SignalToJson(OfferSignal)))
                       ELSE @]
  /\ UNCHANGED <<relayVars, httpVars, meshVars, peerVars, hreq, flt, ln>>

\* a message event on the channel: every installed onMessage runs
AwaitMessageEvent(bytes) ==
  /\ cd.readyState = "open"
  /\ Len(cd.events) < MaxEvents
  /\ cd' = [cd EXCEPT !.events = Append(@, bytes),
                      !.dials = [t \in Targets |-> onMessage(t, cd.dials[t], bytes)]]
  /\ UNCHANGED <<relayVars, httpVars, meshVars, peerVars, hreq, flt, ln>>

\* the channel closes
AwaitScClosed ==
  /\ cd.readyState = "open"
  /\ cd' = [cd EXCEPT !.readyState = "closed"]
  /\ UNCHANGED <<relayVars, httpVars, meshVars, peerVars, hreq, flt, ln>>

InitAwait ==
  /\ cfg = [enableSignalling |-> TRUE, nodeType |-> "Peer", relayPeerId |-> "R1",
            listenerSignallingEnabled |-> FALSE]
  /\ dial = IdleDial
  /\ http = IdleRequest
  /\ tSignallingChannel = NoSC
  /\ dsc = [k \in DSCs |-> IdleDsc]
  /\ lsn = IdleLsn
  /\ IdlePeer
  /\ FreshRelay
  /\ IdleMesh

NextAwait ==
  \/ \E t \in Targets : OnSignalOffer(t)
  \/ \E bytes \in AwaitInputs : AwaitMessageEvent(bytes)
  \/ AwaitScClosed

SpecAwait == InitAwait /\ [][NextAwait]_vars

\* ---- claims checked under SpecAwait
\* the message events the handler of the dial of t has seen that are the
\* awaited response
Matches(t) ==
  IF ~cd.dials[t].started THEN {}
  ELSE {i \in (cd.dials[t].since + 1)..Len(cd.events) :
          parses(cd.events[i]) /\ ParseMessage(cd.events[i]).type = "ConnectResponse"
            /\ ParseMessage(cd.events[i]).src = t /\ ParseMessage(cd.events[i]).dst = OwnPeerId}
FirstMatch(t) == CHOOSE i \in Matches(t) : \A j \in Matches(t) : i <= j

\* C28: in a dial over the signalling channel the response handler is on the
\* channel no later than the ConnectRequest is sent; the engine is fed the
\* signal of the first ConnectResponse with src = target and dst = own id and
\* of no other message; the handler is uninstalled at that delivery, so later
\* matching responses are not fed to this dial's engine.
C28_AwaitsFirstMatchingResponse ==
  /\ [](\A t \in Targets :
          LET d == cd.dials[t] IN
          /\ d.fed # <<>> => Matches(t) # {} /\ d.fed = <<cd.events[FirstMatch(t)]>>
          /\ Matches(t) # {} => ~d.onMessage
          /\ d.onMessage => d.started /\ Matches(t) = {})
  /\ [][\A t \in Targets :
          /\ Len(cd'.sent) > Len(cd.sent) /\ cd'.sent[Len(cd'.sent)][3] = t
               => cd'.dials[t].onMessage
          /\ (Matches(t) = {})' /\ cd.dials[t].started => cd'.dials[t].onMessage
          /\ cd'.dials[t].fed # cd.dials[t].fed => cd.dials[t].onMessage /\ ~cd'.dials[t].onMessage
     ]_vars

\* the awaited response was delivered and fed, then a second matching
\* response with another signal arrived and was not
C28_Witness ==
  \E t \in Targets :
    /\ cd.dials[t].requestSent
    /\ Cardinality(Matches(t)) = 2
    /\ cd.events[Len(cd.events)] # cd.events[FirstMatch(t)]
    /\ Len(cd.dials[t].fed) = 1

\* C29: for concurrent dials by one peer to pairwise different targets over
\* the shared channel, and any interleaving of the ConnectResponses arriving
\* on it, each dial's engine is fed only a ConnectResponse whose src is that
\* dial's own target, and each dial is fed its own answer: the first matching
\* response that reaches a dial still awaiting is the one its engine gets.
C29_ConcurrentDialsGetTheirOwnAnswers ==
  \A t \in Targets :
    LET d == cd.dials[t] IN
    /\ \A i \in 1..Len(d.fed) :
         /\ ParseMessage(d.fed[i]).type = "ConnectResponse"
         /\ ParseMessage(d.fed[i]).src = t
         /\ ParseMessage(d.fed[i]).dst = OwnPeerId
         /\ \A u \in Targets \ {t} : d.fed[i] \notin Range(cd.dials[u].fed)
    /\ Matches(t) # {} /\ ~d.rejected => d.fed = <<cd.events[FirstMatch(t)]>>

\* both dials were awaiting at once, the answers arrived in the order opposite
\* to the requests, and each engine holds the answer of its own target
C29_Witness ==
  /\ Len(cd.sent) = 2
  /\ \A t \in Targets : cd.dials[t].since = 0 /\ Len(cd.dials[t].fed) = 1
  /\ ParseMessage(cd.sent[1]).dst # ParseMessage(cd.events[1]).src
  /\ ParseMessage(cd.events[1]).type = "ConnectResponse"

\* ------------------------------------------------------------- SpecOffline
\* A Peer node that has joined the signalling network through its relay R1
\* (its channel to R1 is open) dials addresses behind which nobody listens:
\* a plain address over HTTP, where fetch fails, and a star address, whose
\* ConnectRequest the relays route or flood (part_008:112-117, 250-264).
InitOffline ==
  /\ topology \in {"single", "line"}
  /\ inbox = [e \in 1..Len(Topologies[topology]) |->
                [n \in {Topologies[topology][e].a, Topologies[topology][e].b} |-> <<>>]]
  /\ hashingAt = [r \in Relays |-> <<>>]
  /\ seenCaches = [r \in Relays |-> {}]
  /\ expired = [r \in Relays |-> {}]
  /\ sent = [k \in {} |-> 0]
  /\ dropped = {}
  /\ receivers = <<>>
  /\ injected = 0
  /\ cfg = [enableSignalling |-> TRUE, nodeType |-> "Peer", relayPeerId |-> "R1",
            listenerSignallingEnabled |-> TRUE]
  /\ dial = IdleDial
  /\ http = IdleRequest
  /\ tSignallingChannel = 1
  /\ dsc = [k \in DSCs |-> IF k = 1
                            THEN [state |-> "open", interval |-> TRUE, closeListener |-> TRUE,
                                  joinSent |-> EncodeJoinRequest(OwnPeerId)]
                            ELSE IdleDsc]
  /\ lsn = IdleLsn
  /\ IdlePeer
  /\ FreshRelay

NextOffline ==
  \/ \E ma \in PlainAddresses, preAborted \in BOOLEAN : Dial(ma, preAborted)
  \/ InitiatorOffer
  \/ FetchFails
  \/ InitiatorError
  \/ Abort
  \/ \E ma \in StarAddresses, preAborted \in BOOLEAN : DialUsingSignallingChannel(ma, preAborted)
  \/ ScInitiatorOffer
  \/ \E e \in EdgeIds : DialerMessage(e)
  \/ ScInitiatorReady
  \/ ScInitiatorError
  \/ ScAbort
  \/ \E e \in EdgeIds : ListenerMessage(e)
  \/ \E i \in 1..Len(receivers) : SigReceiverSignal(i)
  \/ \E i \in 1..Len(receivers) : SigReceiverReady(i)
  \/ \E i \in 1..Len(receivers) : SigReceiverError(i)
  \/ \E r \in Relays, e \in EdgeIds : MeshMessageEvent(r, e)
  \/ \E r \in Relays : MeshHashDone(r)

SpecOffline == InitOffline /\ [][NextOffline]_vars

\* ---- claims checked under SpecOffline
\* the star dial is of a PID no relay has in its peerTable
Unroutable == sdial.path = "sc" /\ getPeerId(sdial.ma) = "PX"

\* C23: a dial whose offer can reach no listener is rejected and fires no
\* connection event anywhere. On the HTTP path the failing request closes the
\* engine and the dial is rejected from then on; on the SC path, when no relay
\* can route the ConnectRequest to the target, no receiver is created for it,
\* the dial never resolves, and it is rejected at the step in which the
\* caller's signal aborts.
C23_OfflineDialIsRejected ==
  /\ [][http.state = "inflight" /\ http'.state = "failed"
          => dial'.channel = "closed" /\ dial'.state = "rejected"]_vars
  /\ [](http.state = "failed" => dial.state = "rejected")
  /\ [](dial.state # "resolved" /\ lsn = IdleLsn)
  /\ [](Unroutable => sdial.state # "resolved" /\ ~sdial.answerFed /\ receivers = <<>>
                      /\ ~pl.connectionEmitted)
  /\ [][Unroutable /\ sdial.state = "pending" /\ ~sdial.aborted /\ sdial'.aborted
          => sdial'.state = "rejected" /\ sdial'.error = "Aborted"]_vars

\* fetch has failed and rejected the HTTP dial; the ConnectRequest of the star
\* dial went out and was flooded to the end of the relay chain, where no
\* channel is left to send it on, and the dial was pending until the abort
\* rejected it
C23_Witness ==
  /\ http.state = "failed" /\ dial.state = "rejected" /\ dial.error = "FetchError"
  /\ Unroutable /\ sdial.requestSent
  /\ sdial.state = "rejected" /\ sdial.error = "Aborted"
  /\ topology = "line"
  /\ seenCaches["R2"] # {}
  /\ hashingAt = [r \in Relays |-> <<>>]

\* ------------------------------------------------------------- SpecFlood
\* A relay with MaxFloodSC relay neighbours: every neighbour's inbound channel
\* has opened and is in relaySignallingChannels (part_004:360-377, 396-404).
\* Neighbours send connect messages for a peer the relay does not know, and
\* channels close at any time, so that a flood meets channels whose send
\* throws (part_004:466-481).
MaxFloodSC == 3
FloodSCs == 1..MaxFloodSC

InitFlood ==
  /\ rsState = [s \in FloodSCs |-> "open"]
  /\ rsKind = [s \in FloodSCs |-> "relay"]
  /\ rsCloseFired = [s \in FloodSCs |-> FALSE]
  /\ peerSignallingChannelMap = [p \in PIDs |-> NoSC]
  /\ relaySignallingChannels = [s \in FloodSCs |-> s]
  /\ seenCache = {}
  /\ messageHandler = FloodSCs
  /\ closeListeners = [s \in FloodSCs |-> {RelayClosure}]
  /\ errorListeners = [s \in FloodSCs |-> {RelayClosure}]
  /\ closingIntervals = {<<s, RelayClosure>> : s \in FloodSCs}
  /\ hashing = <<>>
  /\ lastForward = NoForward
  /\ lastJoin = [p \in PIDs |-> NoSC]
  /\ msgCount = 0
  /\ IdleHttp
  /\ IdleMesh

FloodInputs ==
  {EncodeConnect("ConnectRequest", "P1", "P2", "offer"),
   EncodeConnect("ConnectResponse", "P2", "P1", "answer")}

NextFlood ==
  \/ \E s \in FloodSCs, bytes \in FloodInputs : ConnectMessageEvent(s, bytes)
  \/ \E i \in 1..MaxMsgs : HashDone(i)
  \/ \E s \in FloodSCs : ScClosed(s)
  \/ \E s \in FloodSCs : ScCloseEvent(s)
  \/ \E s \in FloodSCs : HealthTick(s, RelayClosure)

SpecFlood == InitFlood /\ [][NextFlood]_vars

\* ---- claims checked under SpecFlood
\* this step forwards a message whose destination has no entry in peerTable
Floods == lastForward'.kind = "forward" /\ peerSignallingChannelMap[lastForward'.dst] = NoSC

\* C31: during a flood a failing send on one relayList channel does not stop
\* the traversal: send is invoked on every relayList channel other than `from`,
\* on no other channel, and the relay's tables are unchanged by the failure.
C31_FloodSurvivesFailingSend ==
  [][Floods =>
       /\ \A c \in Range(relaySignallingChannels) :
            c # lastForward'.from => c \in Range(lastForward'.sends)
       /\ lastForward'.from \notin Range(lastForward'.sends)
       /\ Range(lastForward'.sends) \subseteq Range(relaySignallingChannels)
       /\ relaySignallingChannels' = relaySignallingChannels
       /\ peerSignallingChannelMap' = peerSignallingChannelMap]_vars

\* a flood whose first send threw on a closed channel and went on to an open one
C31_Witness ==
  /\ lastForward.kind = "forward"
  /\ Len(lastForward.sends) = 2
  /\ rsState[lastForward.sends[1]] = "closed"
  /\ rsState[lastForward.sends[2]] = "open"

\* ------------------------------------------------------------- SpecOrder
\* A Peer node joined to its relay that listens on a star address and dials
\* star addresses while its signalling channels open, close and are
\* replaced: everything the node sends on a channel to the relay
\* (index.ts:346-373, 486-526, part_004:93-111).
InitOrder == InitSig

NextOrder ==
  \/ \E k \in DSCs : DScOpen(k)
  \/ \E k \in DSCs : DScClosed(k)
  \/ \E k \in DSCs : DScCloseEvent(k)
  \/ \E k \in DSCs : DScHealthTick(k)
  \/ \E k \in DSCs, tcc \in BOOLEAN : DScError(k, tcc)
  \/ \E k \in DSCs, bytes \in SigInputs : PlMessage(k, bytes)
  \/ PlReceiverSignal
  \/ \E ma \in StarAddresses, preAborted \in BOOLEAN : DialUsingSignallingChannel(ma, preAborted)
  \/ ScInitiatorOffer
  \/ ScAbort

SpecOrder == InitOrder /\ [][NextOrder]_vars

\* ---- claims checked under SpecOrder
\* the step sends the ConnectRequest of the star dial (on the channel the
\* transport holds), resp. a ConnectResponse of the listener (on the channel
\* processRequest captured)
SendsConnectRequest == ~sdial.requestSent /\ sdial'.requestSent
SendsConnectResponse ==
  /\ pl.request = "live" /\ pl'.signals = pl.signals + 1
  /\ pl.captured # GoneSC /\ dsc[pl.captured].state = "open"
JoinWentOutOn(k) == k \in DSCs /\ dsc[k].joinSent = EncodeJoinRequest(OwnPeerId)

\* C32: on every channel from the peer to its relay the peer's JoinRequest is
\* sent before any ConnectRequest or ConnectResponse the peer sends on that
\* channel: every open channel has carried the JoinRequest since its open
\* event, and a step that sends a connect message sends it on such a channel.
C32_JoinRequestGoesFirst ==
  /\ [](\A k \in DSCs : dsc[k].state = "open" => JoinWentOutOn(k))
  /\ [][/\ SendsConnectRequest => JoinWentOutOn(tSignallingChannel)
        /\ SendsConnectResponse => JoinWentOutOn(pl.captured)]_vars

\* the first channel was replaced; the ConnectRequest of a dial and a
\* ConnectResponse of the listener went out on channels that had carried the
\* JoinRequest
C32_Witness ==
  /\ sdial.requestSent
  /\ pl.answeredOn # NoSC
  /\ tSignallingChannel # NoSC /\ tSignallingChannel # 1
  /\ JoinWentOutOn(tSignallingChannel)

\* ---- further claims checked under SpecPeer
\* the readyState of channel k becomes closed in this step, as it does when
\* the error handler calls close() for "Transport channel closed"
BecomesClosed(k) == dsc[k].state \in {"connecting", "open"} /\ dsc'[k].state = "closed"
\* the close event of channel k is dispatched in this step
CloseEventOf(k) == dsc[k].state = "closed" /\ dsc'[k].state # "closed"

\* C33 (as stated in the specification): an error "Transport channel closed"
\* on a channel to the relay is handled as a normal close: the error path
\* itself opens no replacement channel, and at the close event that follows
\* the close handling runs, having not run for this channel before.
C33_TransportClosedIsNormalClose ==
  [][\A k \in DSCs :
       /\ BecomesClosed(k) =>
            \A j \in DSCs : dsc'[j].state = "connecting" => dsc[j].state = "connecting"
       /\ CloseEventOf(k) => dsc[k].closeListener /\ dsc[k].interval]_vars

\* ------------------------------------------------------------- SpecTwin
\* One peer has two dials of the same target P2 pending at once on its
\* signalling channel (index.ts:478-534; the dials of part_008:202-248 made
\* without awaiting the first). Each dial's engine has its own offer, and the
\* listener answers each ConnectRequest with the answer to that offer.
Twins == {1, 2}
TwinTarget == "P2"
TwinOfferSignal(i) == [type |-> "offer", sdp |-> <<0, i>>]
\* the ConnectResponse answering the offer of dial i
TwinAnswer(i) ==
  EncodeConnect("ConnectResponse", TwinTarget, OwnPeerId, SignalToJson(ReceiverSignal(i, 1)))
AnswersOfferOf(bytes) == JsonToSignal(ParseMessage(bytes).signal).sdp[1]

\* index.ts:478-526: the engine of dial i emits its offer
TwinSignalOffer(i) ==
  /\ ~cd.dials[i].started
  /\ cd' = [cd EXCEPT
              !.dials[i] = [@ EXCEPT !.started = TRUE, !.awaiting = TRUE, !.onMessage = TRUE,
                                     !.since = Len(cd.events),
                                     !.requestSent = cd.readyState = "open"],
              !.sent = IF cd.readyState = "open"
                       THEN Append(@, EncodeConnect("ConnectRequest", OwnPeerId, TwinTarget,
                                                    SignalToJson(TwinOfferSignal(i))))
                       ELSE @]
  /\ UNCHANGED <<relayVars, httpVars, meshVars, peerVars, hreq, flt, ln>>

\* what the relay may deliver on the channel: the answer to a ConnectRequest
\* that was sent, or a message that is no answer to these dials
TwinInputs ==
  {TwinAnswer(i) : i \in {j \in Twins : cd.dials[j].requestSent}}
  \cup {EncodeConnect("ConnectResponse", "P3", OwnPeerId, SignalToJson(ReceiverSignal(3, 1))),
        EncodeConnect("ConnectRequest", TwinTarget, OwnPeerId, SignalToJson(OfferSignal)),
        Garbage}

\* a message event on the channel: all installed handlers run (index.ts:499-519)
TwinMessageEvent(bytes) ==
  /\ cd.readyState = "open"
  /\ Len(cd.events) < MaxEvents
  /\ bytes \in TwinInputs
  /\ cd' = [cd EXCEPT !.events = Append(@, bytes),
                      !.dials = [j \in Twins |-> onMessage(TwinTarget, cd.dials[j], bytes)]]
  /\ UNCHANGED <<relayVars, httpVars, meshVars, peerVars, hreq, flt, ln>>

InitTwin ==
  /\ cfg = [enableSignalling |-> TRUE, nodeType |-> "Peer", relayPeerId |-> "R1",
            listenerSignallingEnabled |-> FALSE]
  /\ dial = IdleDial
  /\ http = IdleRequest
  /\ tSignallingChannel = NoSC
  /\ dsc = [k \in DSCs |-> IdleDsc]
  /\ lsn = IdleLsn
  /\ pl = NoListener
  /\ sdial = IdleDial
  /\ srv = ListeningServer
  /\ hreq = <<>>
  /\ flt = NoFilter
  /\ cd = [IdleCd EXCEPT !.dials = [i \in Twins |-> NoAwait]]
  /\ ln = NoListen
  /\ FreshRelay
  /\ IdleMesh

NextTwin ==
  \/ \E i \in Twins : TwinSignalOffer(i)
  \/ \E bytes \in {TwinAnswer(i) : i \in Twins} \cup AwaitInputs : TwinMessageEvent(bytes)
  \/ AwaitScClosed

SpecTwin == InitTwin /\ [][NextTwin]_vars

\* ---- claims checked under SpecTwin
\* C34 (as stated in the specification): when two dials by the same peer to
\* the same target are pending at the same time on the shared channel, each
\* arriving ConnectResponse is fed to the engine of exactly one of them, the
\* dial whose offer it answers, never to both.
C34_TwinDialsGetTheirOwnAnswer ==
  \A i \in Twins : \A n \in 1..Len(cd.dials[i].fed) :
    /\ AnswersOfferOf(cd.dials[i].fed[n]) = i
    /\ \A j \in Twins \ {i} : cd.dials[i].fed[n] \notin Range(cd.dials[j].fed)

\* C35 (as stated in the specification): if a channel to the primary relay
\* closes while another channel to the primary relay that opened later is
\* still open, the transport's signalling-channel reference stays set to the
\* open channel and the signalling listener stays registered on it.
C35_OpenChannelStaysReferenced ==
  [][\A j \in DSCs :
       (/\ tSignallingChannel = j /\ dsc[j].state = "open" /\ dsc'[j].state = "open"
        /\ \E k \in DSCs \ {j} : dsc[k].state = "closed")
       => (/\ tSignallingChannel' = j
           /\ pl.signallingChannel = j => pl'.signallingChannel = j)]_vars

\* C36 (as stated in the specification): every close-or-error incident of a
\* parent connection's signalling channel leads to at most one replacement,
\* so at most one non-closed signalling channel created by the dial engine
\* exists per parent connection at any time.
C36_OneLiveChannelPerConnection ==
  Cardinality({k \in DSCs : dsc[k].state \in {"connecting", "open"}}) <= 1

\* ---- further claims checked under SpecStar
\* C37 (as stated in the specification): after a dial over the signalling
\* channel has finished in any way (resolved, rejected through an engine
\* error, or aborted by the caller's signal) no message handler installed by
\* that dial remains on the shared channel.
C37_FinishedDialLeavesNoHandler ==
  sdial.path = "sc" /\ sdial.state \in {"resolved", "rejected"} => ~sdial.onMessage

\* ---- further claims checked under SpecSig
\* C38 (as stated in the specification): every receiver a listener creates is
\* removed from the listener's channel list once it has closed (its close
\* event has been dispatched), including receivers that error or close before
\* emitting `ready`.
C38_ClosedReceiverIsUntracked ==
  pl.request = "closed" => pl.channels = 0

\* C39 (as stated in the specification): a signalling listener is active (it
\* has emitted `listening` and getAddrs() returns its address) whenever
\* listen() has been called with a star address and a channel to the primary
\* relay is open, whichever of the two happened first.
C39_ListenerActiveWithOpenChannel ==
  (pl.server = "sig" /\ tSignallingChannel # NoSC /\ dsc[tSignallingChannel].state = "open")
    => getAddrs(pl) # {}

\* ---------------------------------------------------------------------------
\* listen() called more than once on one listener.  The listener of
\* part_007 sets this.multiaddr only when its server's `listening` event
\* fires; the listener of src/listener.ts sets it inside listen().
\* ---------------------------------------------------------------------------
MaxListens == 3
ListenAddrs == {"addr1", "addr2"}
\* "sig", "http": part_007 with a star address / a host:port address;
\* "http0": src/listener.ts
ListenerVariants == {"sig", "http", "http0"}

\* the guard of listen(): `if (this.multiaddr != null) throw ERR_ALREADY_LISTENING`
alreadyListening(l) == l.multiaddr # "unset"

\* listen(multiaddr) on listener l: the listener after the call, the outcome of
\* the call appended to l.calls.  A call that passes the guard creates a new
\* server and assigns it to this.server (the last of l.servers); only
\* src/listener.ts also assigns this.multiaddr.
listen(l, ma) ==
  IF alreadyListening(l)
    THEN [l EXCEPT !.calls = Append(@, "ERR_ALREADY_LISTENING")]
    ELSE [l EXCEPT !.servers = Append(@, [ma |-> ma, listening |-> FALSE]),
                   !.multiaddr = IF l.variant = "http0" THEN ma ELSE @,
                   !.calls = Append(@, "created")]

\* this.server of the listener: 0 when unset, else the latest server created
thisServer(l) == Len(l.servers)

ListenCall(ma) ==
  /\ Len(ln.calls) < MaxListens
  /\ ln' = listen(ln, ma)
  /\ UNCHANGED <<relayVars, httpVars, meshVars, peerVars, hreq, flt, cd>>

\* The `listening` event of HTTP server i (its socket is bound): in part_007
\* the handler installed by the listen() call that created server i sets
\* this.multiaddr to that call's address; in src/listener.ts the pending
\* listen() resumes and only dispatches `listening`.
ServerListening(i) ==
  /\ ln.variant \in {"http", "http0"}
  /\ i \in 1..Len(ln.servers)
  /\ ~ln.servers[i].listening
  /\ ln' = [ln EXCEPT !.servers[i].listening = TRUE,
                      !.multiaddr = IF ln.variant = "http" THEN ln.servers[i].ma ELSE @]
  /\ UNCHANGED <<relayVars, httpVars, meshVars, peerVars, hreq, flt, cd>>

\* The transport's channel opens and is handed to this.server, which, being
\* a signalling server, dispatches `listening`.
ListenRegister ==
  /\ ln.variant = "sig"
  /\ ~ln.registered
  /\ ln' = IF thisServer(ln) = 0
             THEN [ln EXCEPT !.registered = TRUE]
             ELSE [ln EXCEPT !.registered = TRUE,
                             !.servers[thisServer(ln)].listening = TRUE,
                             !.multiaddr = ln.servers[thisServer(ln)].ma]
  /\ UNCHANGED <<relayVars, httpVars, meshVars, peerVars, hreq, flt, cd>>

\* The transport's channel closes: deRegisterSignallingChannel unsets
\* this.multiaddr when this.server is a signalling server.
ListenDeRegister ==
  /\ ln.variant = "sig"
  /\ ln.registered
  /\ ln' = IF thisServer(ln) = 0
             THEN [ln EXCEPT !.registered = FALSE]
             ELSE [ln EXCEPT !.registered = FALSE, !.multiaddr = "unset"]
  /\ UNCHANGED <<relayVars, httpVars, meshVars, peerVars, hreq, flt, cd>>

InitListen ==
  /\ FreshRelay /\ IdleMesh
  /\ cfg = [enableSignalling |-> TRUE, nodeType |-> "Peer", relayPeerId |-> "R1",
            listenerSignallingEnabled |-> TRUE]
  /\ dial = IdleDial
  /\ http = IdleRequest
  /\ tSignallingChannel = NoSC
  /\ dsc = [k \in DSCs |-> IdleDsc]
  /\ lsn = IdleLsn
  /\ pl = NoListener /\ sdial = IdleDial /\ srv = ListeningServer
  /\ hreq = <<>> /\ flt = NoFilter /\ cd = IdleCd
  /\ \E v \in ListenerVariants : ln = [NoListen EXCEPT !.variant = v]

NextListen ==
  \/ \E ma \in ListenAddrs : ListenCall(ma)
  \/ \E i \in 1..MaxListens : ServerListening(i)
  \/ ListenRegister
  \/ ListenDeRegister

SpecListen == InitListen /\ [][NextListen]_vars

\* a call of listen() on a listener on which listen() was called before
SecondListen ==
  /\ ln.calls # <<>>
  /\ Len(ln'.calls) = Len(ln.calls) + 1

\* C40 (as stated in the specification): a second listen() on a listener on
\* which listen() has already been called fails with ERR_ALREADY_LISTENING and
\* leaves the listener's server and address unchanged, for the HTTP and the
\* signalling listener alike and whether or not `listening` has fired yet.
C40_SecondListenFails ==
  [][SecondListen =>
       /\ ln'.calls[Len(ln'.calls)] = "ERR_ALREADY_LISTENING"
       /\ thisServer(ln') = thisServer(ln)
       /\ ln'.multiaddr = ln.multiaddr]_vars

====
